---- MODULE Spec2Model ----
(***************************************************************************)
(* A model of mdllama's web search pipeline (src/src/mdllama/web_search.py):*)
(* DuckDuckGoSearch.search with its three backends, the content extractor  *)
(* WebContentExtractor.extract_content with its _clean_text,               *)
(* WebsiteContentFetcher.fetch_website_content with its                    *)
(* _is_likely_junk_line, and create_search_prompt_enhancement.             *)
(*                                                                         *)
(* Python strings are sequences of one-character strings, so that slicing, *)
(* len(), strip(), "in" and startswith() are computed as Python computes   *)
(* them.  What the third-party libraries return (requests' response,      *)
(* json.loads' value, re.findall's matches, BeautifulSoup's tree) is part  *)
(* of the input: a fetch draws its outcome from the small web below.       *)
(***************************************************************************)
EXTENDS Integers, Sequences, FiniteSets, TLC

VARIABLES
    call,          \* the entry point that was invoked
    pc,            \* position inside the running call
    bs4_available, \* BS4_AVAILABLE (lines 18-22): whether the build has BeautifulSoup
    query,         \* search: the query argument
    max_results,   \* search: the max_results argument; clamped at line 357
    url,           \* extract_content / fetch_website_content: the url argument
    max_length,    \* fetch_website_content: the max_length argument
    engine,        \* _search_alternative: index into search_engines
    result_urls,   \* _search_alternative: result_urls[:max_results] of the current engine
    dest,          \* _search_alternative: index of the next destination in result_urls
    results,       \* the candidate list (of the running backend, then of search)
    cand,          \* search: index of the next candidate of the extraction loop
    results_with_content,     \* search: indexes into results, in append order
    results_without_content,  \* search: indexes into results, in append order
    ret,            \* what search (or a backend called on its own) returned
    ret_data, \* what extract_content returned
    ret_text,   \* what fetch_website_content returned
    requested,     \* history: the max_results argument as the caller passed it
    ran,           \* history: the backends that ran, with what each returned
    destinations,  \* history: the destinations _search_alternative fetched
    extracted,     \* history: per candidate, what search's loop got from extract_content
    escaped,       \* history: an exception reached search's outer handler
    fetched,       \* history: the outcome of the one fetch of extract_content,
                   \* fetch_website_content or _search_html
    arm,           \* history: what the call did with that outcome
    fetches,       \* history: the urls the call requested with session.get, in order
    text_arg,      \* _clean_text: the text argument of the first call
    cleaned,       \* _clean_text: what the successive calls returned
    line_arg,      \* _is_likely_junk_line: the line argument
    ret_junk,      \* what _is_likely_junk_line returned
    search_results, \* create_search_prompt_enhancement: the search_results argument
    enhancement    \* what create_search_prompt_enhancement returned

vars == <<call, pc, bs4_available, query, max_results, url, max_length, engine,
          result_urls, dest, results, cand, results_with_content,
          results_without_content, ret, ret_data, ret_text, requested, ran,
          destinations, extracted, escaped, fetched, arm, fetches, text_arg,
          cleaned, line_arg, ret_junk, search_results, enhancement>>

-----------------------------------------------------------------------------
(* Python's built-ins on strings and lists.                                *)

Min(a, b) == IF a <= b THEN a ELSE b

Max(a, b) == IF a >= b THEN a ELSE b

\* str.isspace() of one character
IsSpace(c) == c \in {" ", "\n", "\t", "\r"}

\* s[:n] for n >= 0
Take(s, n) == SubSeq(s, 1, Min(n, Len(s)))

\* s.startswith(p)
StartsWith(s, p) == Len(s) >= Len(p) /\ SubSeq(s, 1, Len(p)) = p

\* sub in s
Contains(s, sub) ==
    \E i \in 1..(Len(s) - Len(sub) + 1) : SubSeq(s, i, i + Len(sub) - 1) = sub

\* s.strip()
Strip(s) ==
    IF \A i \in 1..Len(s) : IsSpace(s[i]) THEN <<>>
    ELSE LET first == CHOOSE i \in 1..Len(s) :
                          ~IsSpace(s[i]) /\ \A j \in 1..(i - 1) : IsSpace(s[j])
             last  == CHOOSE i \in 1..Len(s) :
                          ~IsSpace(s[i]) /\ \A j \in (i + 1)..Len(s) : IsSpace(s[j])
         IN  SubSeq(s, first, last)

\* s.rfind(c) for a one-character c, as a 1-based index; 0 when c is not in s
\* (Python's 0-based index is this minus 1, and -1 when absent)
RFind(s, c) ==
    IF \A i \in 1..Len(s) : s[i] # c THEN 0
    ELSE CHOOSE i \in 1..Len(s) : s[i] = c /\ \A j \in (i + 1)..Len(s) : s[j] # c

\* s.lower(), on the letters the model's texts use
LowerChar(c) ==
    CASE c = "A" -> "a" [] c = "B" -> "b" [] c = "C" -> "c" [] c = "D" -> "d"
      [] c = "E" -> "e" [] c = "F" -> "f" [] c = "G" -> "g" [] c = "H" -> "h"
      [] c = "I" -> "i" [] c = "J" -> "j" [] c = "K" -> "k" [] c = "L" -> "l"
      [] c = "M" -> "m" [] c = "N" -> "n" [] c = "O" -> "o" [] c = "P" -> "p"
      [] c = "Q" -> "q" [] c = "R" -> "r" [] c = "S" -> "s" [] c = "T" -> "t"
      [] c = "U" -> "u" [] c = "V" -> "v" [] c = "W" -> "w" [] c = "X" -> "x"
      [] c = "Y" -> "y" [] c = "Z" -> "z" [] OTHER -> c

Lower(s) == <<>> \o [i \in 1..Len(s) |-> LowerChar(s[i])]

UpperChar(c) ==
    CASE c = "a" -> "A" [] c = "b" -> "B" [] c = "c" -> "C" [] c = "d" -> "D"
      [] c = "e" -> "E" [] c = "f" -> "F" [] c = "g" -> "G" [] c = "h" -> "H"
      [] c = "i" -> "I" [] c = "j" -> "J" [] c = "k" -> "K" [] c = "l" -> "L"
      [] c = "m" -> "M" [] c = "n" -> "N" [] c = "o" -> "O" [] c = "p" -> "P"
      [] c = "q" -> "Q" [] c = "r" -> "R" [] c = "s" -> "S" [] c = "t" -> "T"
      [] c = "u" -> "U" [] c = "v" -> "V" [] c = "w" -> "W" [] c = "x" -> "X"
      [] c = "y" -> "Y" [] c = "z" -> "Z" [] OTHER -> c

IsAlpha(c) == LowerChar(c) # c \/ UpperChar(c) # c

\* s.title(): a letter that follows a non-letter is upper-cased, any other lower-cased
Title(s) ==
    <<>> \o [i \in 1..Len(s) |->
        IF i = 1 \/ ~IsAlpha(s[i - 1]) THEN UpperChar(s[i]) ELSE LowerChar(s[i])]

\* s.split(): the maximal runs of non-whitespace characters, in order
Split(s) ==
    LET starts == {i \in 1..Len(s) : ~IsSpace(s[i]) /\ (i = 1 \/ IsSpace(s[i - 1]))}
        EndOf(i) == CHOOSE e \in i..Len(s) :
                        /\ \A j \in i..e : ~IsSpace(s[j])
                        /\ (e = Len(s) \/ IsSpace(s[e + 1]))
        Nth(k) == CHOOSE i \in starts : Cardinality({j \in starts : j < i}) = k - 1
    IN  <<>> \o [k \in 1..Cardinality(starts) |-> SubSeq(s, Nth(k), EndOf(Nth(k)))]

\* sep.join(parts)
RECURSIVE Join(_, _)
Join(sep, parts) ==
    IF parts = <<>> THEN <<>>
    ELSE IF Len(parts) = 1 THEN parts[1]
    ELSE parts[1] \o sep \o Join(sep, Tail(parts))

\* The exception a lone surrogate raises when a string is encoded as UTF-8.
Surrogate == "\\ud800"

\* urllib.parse.quote(s): the unreserved characters and "/" are kept, every
\* other character is percent-encoded from its UTF-8 bytes
QuoteSafe ==
    {"a", "b", "c", "d", "e", "f", "g", "h", "i", "j", "k", "l", "m", "n", "o",
     "p", "q", "r", "s", "t", "u", "v", "w", "x", "y", "z", "0", "1", "2", "3",
     "4", "5", "6", "7", "8", "9", "_", ".", "-", "~", "/"}

QuoteChar(c) ==
    IF c \in QuoteSafe \/ LowerChar(c) \in QuoteSafe THEN <<c>>
    ELSE CASE c = " " -> <<"%", "2", "0">>
           [] c = "'" -> <<"%", "2", "7">>
           [] c = "?" -> <<"%", "3", "F">>
           [] c = "&" -> <<"%", "2", "6">>
           [] c = "#" -> <<"%", "2", "3">>
           [] c = ":" -> <<"%", "3", "A">>

RECURSIVE Quote(_)
Quote(s) == IF s = <<>> THEN <<>> ELSE QuoteChar(Head(s)) \o Quote(Tail(s))

\* quote() raises UnicodeEncodeError on a lone surrogate
QuoteRaises(s) == \E i \in 1..Len(s) : s[i] = Surrogate

-----------------------------------------------------------------------------
(* Regular-expression substitutions, computed position by position: each   *)
(* is the leftmost, non-overlapping scan re.sub performs.  A sequence      *)
(* built by a function constructor is written <<>> \o [i \in 1..n |-> e]:   *)
(* the same sequence, which TLC then holds as a tuple.                     *)

\* re.sub(r'\s+', ' ', s): every maximal whitespace run becomes one space
CollapseSpace(s) ==
    LET First(i) == ~IsSpace(s[i]) \/ i = 1 \/ ~IsSpace(s[i - 1])
        t == [i \in 1..Len(s) |-> IF IsSpace(s[i]) THEN " " ELSE s[i]]
        idx == SelectSeq([i \in 1..Len(s) |-> i], First)
    IN  <<>> \o [k \in 1..Len(idx) |-> t[idx[k]]]

\* the characters of [\x00-\x08\x0b\x0c\x0e-\x1f\x7f-\x84\x86-\x9f], each
\* written as one symbol
ControlChars == {"\\x00", "\\x07", "\\x08", "\\x0b", "\\x0c", "\\x1b", "\\x7f", "\\x9f"}

\* re.sub(r'[\x00-\x08\x0b\x0c\x0e-\x1f\x7f-\x84\x86-\x9f]', '', s)
StripControl(s) ==
    LET NotControl(i) == s[i] \notin ControlChars
        idx == SelectSeq([i \in 1..Len(s) |-> i], NotControl)
    IN  <<>> \o [k \in 1..Len(idx) |-> s[idx[k]]]

\* re.sub(r'\n\s*\n\s*\n+', '\n\n', s): in a whitespace run with three or more
\* newlines, everything from its first newline to its last becomes two newlines
NormalizeLineBreaks(s) ==
    LET RunStart(i) == i - (CHOOSE d \in 0..(i - 1) :
                                /\ \A j \in (i - d)..i : IsSpace(s[j])
                                /\ (i - d = 1 \/ ~IsSpace(s[i - d - 1])))
        RunEnd(i)   == CHOOSE b \in i..Len(s) : /\ \A j \in i..b : IsSpace(s[j])
                                                /\ (b = Len(s) \/ ~IsSpace(s[b + 1]))
        Newlines(i) == {j \in RunStart(i)..RunEnd(i) : s[j] = "\n"}
        FirstNl(i)  == CHOOSE j \in Newlines(i) : \A k \in Newlines(i) : j <= k
        LastNl(i)   == CHOOSE j \in Newlines(i) : \A k \in Newlines(i) : j >= k
        Dropped(i)  == /\ IsSpace(s[i])
                       /\ Cardinality(Newlines(i)) >= 3
                       /\ FirstNl(i) < i /\ i < LastNl(i)
        Kept(i)     == ~Dropped(i)
        idx == SelectSeq([i \in 1..Len(s) |-> i], Kept)
    IN  <<>> \o [k \in 1..Len(idx) |-> s[idx[k]]]

\* WebContentExtractor._clean_text
CleanText(text) ==
    IF text = <<>> THEN <<>>
    ELSE Strip(NormalizeLineBreaks(StripControl(CollapseSpace(text))))

\* re.sub(r'<[^>]+>', repl, s): a tag runs from a "<" to the first ">" after it,
\* with at least one character between them; the scan resumes after that ">"
RECURSIVE SubTags(_, _)
SubTags(s, repl) ==
    LET Gt(i)    == CHOOSE g \in (i + 1)..Len(s) :
                        s[g] = ">" /\ \A k \in (i + 1)..(g - 1) : s[k] # ">"
        IsTag(i) == /\ s[i] = "<"
                    /\ \E g \in (i + 1)..Len(s) : s[g] = ">"
                    /\ Gt(i) >= i + 2
    IN  IF ~\E i \in 1..Len(s) : IsTag(i) THEN s
        ELSE LET i0 == CHOOSE i \in 1..Len(s) : IsTag(i) /\ \A j \in 1..(i - 1) : ~IsTag(j)
             IN  SubSeq(s, 1, i0 - 1) \o repl
                 \o SubTags(SubSeq(s, Gt(i0) + 1, Len(s)), repl)

-----------------------------------------------------------------------------
(* The value json.loads returns.  Every value is a record of one shape:    *)
(* t is its Python type, s the text of a str (or the repr of a number),    *)
(* items the entries of a dict (key k, value v) or of a list (k empty), in *)
(* order.  t = "invalid" stands for a body on which json.loads raises      *)
(* JSONDecodeError.                                                        *)

JStr(s) == [t |-> "str", s |-> s, items |-> <<>>]

JNum(s) == [t |-> "num", s |-> s, items |-> <<>>]

JDict(items) == [t |-> "dict", s |-> <<>>, items |-> items]

JList(items) == [t |-> "list", s |-> <<>>, items |-> items]

JInvalid == [t |-> "invalid", s |-> <<>>, items |-> <<>>]

\* str(data): Python's repr of the parsed value
RECURSIVE Repr(_), ReprItems(_, _)
Repr(v) ==
    CASE v.t = "str"  -> <<"'">> \o v.s \o <<"'">>
      [] v.t = "num"  -> v.s
      [] v.t = "dict" -> <<"{">> \o ReprItems(v.items, TRUE) \o <<"}">>
      [] v.t = "list" -> <<"[">> \o ReprItems(v.items, FALSE) \o <<"]">>

ReprItems(items, keyed) ==
    IF items = <<>> THEN <<>>
    ELSE (IF keyed THEN <<"'">> \o items[1].k \o <<"'", ":", " ">> ELSE <<>>)
         \o Repr(items[1].v)
         \o (IF Len(items) > 1 THEN <<",", " ">> ELSE <<>>)
         \o ReprItems(Tail(items), keyed)

\* a str value must be longer than this to be collected (line 207)
MinJsonValueLen == 20

\* extract_from_dict gives up below this depth (line 203)
MaxJsonDepth == 3

\* extract_from_dict (lines 202-213): the "key: value" lines it appends to
\* content_parts, in order
RECURSIVE ExtractFromDict(_, _), ExtractFromItems(_, _, _)
ExtractFromDict(obj, depth) ==
    IF depth > MaxJsonDepth THEN <<>>
    ELSE IF obj.t \in {"dict", "list"}
         THEN ExtractFromItems(obj.items, obj.t = "dict", depth)
         ELSE <<>>

ExtractFromItems(items, keyed, depth) ==
    IF items = <<>> THEN <<>>
    ELSE LET value == items[1].v
             here  ==
                 IF keyed
                 THEN IF value.t = "str" /\ Len(value.s) > MinJsonValueLen
                      THEN <<items[1].k \o <<":", " ">> \o value.s>>
                      ELSE IF value.t \in {"dict", "list"}
                           THEN ExtractFromDict(value, depth + 1)
                           ELSE <<>>
                 ELSE ExtractFromDict(value, depth + 1)
         IN  here \o ExtractFromItems(Tail(items), keyed, depth)

-----------------------------------------------------------------------------
(* The tree BeautifulSoup(html, 'html.parser') returns.  A node is an      *)
(* element (its tag, the attributes the code reads, its children) or a     *)
(* text node (tag "#text", its text).                                      *)

Elem(tag, id, cls, role, kids) ==
    [tag |-> tag, id |-> id, cls |-> cls, role |-> role, name |-> "",
     property |-> "", content |-> <<>>, lang |-> <<>>, text |-> <<>>, kids |-> kids]

TextNode(text) ==
    [tag |-> "#text", id |-> "", cls |-> {}, role |-> "", name |-> "",
     property |-> "", content |-> <<>>, lang |-> <<>>, text |-> text, kids |-> <<>>]

Meta(name, property, content) ==
    [tag |-> "meta", id |-> "", cls |-> {}, role |-> "", name |-> name,
     property |-> property, content |-> content, lang |-> <<>>, text |-> <<>>,
     kids |-> <<>>]

\* the parse of no markup at all, and the root of every tree
Soup(kids) == Elem("[document]", "", {}, "", kids)

\* the descendants of n in document order, n excluded
RECURSIVE Descendants(_), DescendantsOfAll(_)
Descendants(n) == DescendantsOfAll(n.kids)

DescendantsOfAll(kids) ==
    IF kids = <<>> THEN <<>>
    ELSE <<kids[1]>> \o Descendants(kids[1]) \o DescendantsOfAll(Tail(kids))

\* node.get_text(separator=sep, strip=True): the stripped, non-empty strings
\* of the text nodes below n, in order, joined by sep
GetText(n, sep) ==
    LET IsText(d) == d.tag = "#text" /\ Strip(d.text) # <<>>
        nodes == SelectSeq(IF n.tag = "#text" THEN <<n>> ELSE Descendants(n), IsText)
    IN  Join(sep, [i \in 1..Len(nodes) |-> Strip(nodes[i].text)])

\* A CSS selector of the two lists: kind is "tag", "class", "id", "role" or
\* "within" (the descendant combinator '.container .content').
Sel(kind, val) == [kind |-> kind, val |-> val, anc |-> ""]

SelWithin(anc, val) == [kind |-> "within", val |-> val, anc |-> anc]

\* whether element n alone matches the simple part of sel
MatchesSimple(n, sel) ==
    /\ n.tag \notin {"#text", "[document]"}
    /\ CASE sel.kind = "tag"    -> n.tag = sel.val
         [] sel.kind = "class"  -> sel.val \in n.cls
         [] sel.kind = "id"     -> n.id = sel.val
         [] sel.kind = "role"   -> n.role = sel.val
         [] sel.kind = "within" -> sel.val \in n.cls

\* soup.select(sel): the matching elements below root, in document order
RECURSIVE Select(_, _, _), SelectAll(_, _, _)
Select(n, sel, inside) ==
    SelectAll(n.kids, sel, inside \/ (sel.kind = "within" /\ sel.anc \in n.cls))

SelectAll(kids, sel, inside) ==
    IF kids = <<>> THEN <<>>
    ELSE (IF MatchesSimple(kids[1], sel) /\ (sel.kind # "within" \/ inside)
          THEN <<kids[1]>> ELSE <<>>)
         \o Select(kids[1], sel, inside)
         \o SelectAll(Tail(kids), sel, inside)

\* the tree after element.decompose() of every element that matches one of
\* sels (lines 143-145); "within" does not occur among the unwanted selectors
RECURSIVE Decompose(_, _), DecomposeAll(_, _)
Decompose(n, sels) == [n EXCEPT !.kids = DecomposeAll(n.kids, sels)]

DecomposeAll(kids, sels) ==
    IF kids = <<>> THEN <<>>
    ELSE (IF \E i \in 1..Len(sels) : MatchesSimple(kids[1], sels[i])
          THEN <<>> ELSE <<Decompose(kids[1], sels)>>)
         \o DecomposeAll(Tail(kids), sels)

-----------------------------------------------------------------------------
(* WebContentExtractor: the extraction strategies.  Each returns the dict  *)
(* {title, content, metadata, source} as a record.                         *)

\* _extract_json_content keeps this much of str(data) or of an unparseable body
\* (lines 216, 227)
JsonContentCap == 1000

\* _extract_xml_content and _extract_plain_text keep this much (lines 240, 247)
TextContentCap == 2000

\* an element's text must be longer than this to be collected (line 151)
MinElementTextLen == 10

\* lines 224-230 cleaning and capping an unparseable body as _extract_plain_text
\* does
ExtractJsonContentAsPlainText(text, data, final_url) ==
    IF data.t = "invalid"
    THEN [title    |-> <<"I","n","v","a","l","i","d"," ","J","S","O","N">>,
          content  |-> CleanText(Take(text, TextContentCap)),
          metadata |-> [source |-> final_url, content_type |-> <<"j","s","o","n">>,
                        error |-> <<"i","n","v","a","l","i","d","_","j","s","o","n">>],
          source   |-> final_url]
    ELSE LET content_parts == ExtractFromDict(data, 0)
             str_data == IF data.t = "str" THEN data.s ELSE Repr(data)
         IN  [title    |-> <<"J","S","O","N"," ","D","a","t","a">>,
              content  |-> IF content_parts # <<>>
                           THEN Join(<<"\n", "\n">>, content_parts)
                           ELSE Take(str_data, JsonContentCap),
              metadata |-> [source |-> final_url, content_type |-> <<"j","s","o","n">>],
              source   |-> final_url]

\* _extract_json_content (lines 195-230)
ExtractJsonContent(text, data, final_url) ==
    IF data.t = "invalid"
    THEN [title    |-> <<"I","n","v","a","l","i","d"," ","J","S","O","N">>,
          content  |-> Take(text, JsonContentCap),
          metadata |-> [source |-> final_url, content_type |-> <<"j","s","o","n">>,
                        error |-> <<"i","n","v","a","l","i","d","_","j","s","o","n">>],
          source   |-> final_url]
    ELSE LET content_parts == ExtractFromDict(data, 0)
             str_data == IF data.t = "str" THEN data.s ELSE Repr(data)
         IN  [title    |-> <<"J","S","O","N"," ","D","a","t","a">>,
              content  |-> IF content_parts # <<>>
                           THEN Join(<<"\n", "\n">>, content_parts)
                           ELSE Take(str_data, JsonContentCap),
              metadata |-> [source |-> final_url, content_type |-> <<"j","s","o","n">>],
              source   |-> final_url]

\* _extract_xml_content (lines 232-243)
ExtractXmlContent(text, final_url) ==
    LET xml_text == Strip(CollapseSpace(SubTags(text, <<" ">>)))
    IN  [title    |-> <<"X","M","L"," ","D","o","c","u","m","e","n","t">>,
         content  |-> Take(xml_text, TextContentCap),
         metadata |-> [source |-> final_url, content_type |-> <<"x","m","l">>],
         source   |-> final_url]

\* _extract_plain_text (lines 245-254)
ExtractPlainText(text, final_url) ==
    [title    |-> <<"T","e","x","t"," ","D","o","c","u","m","e","n","t">>,
     content  |-> CleanText(Take(text, TextContentCap)),
     metadata |-> [source |-> final_url, content_type |-> <<"t","e","x","t">>],
     source   |-> final_url]

\* soup.find(...): the first element below soup that P holds of, or the text
\* node of no text when there is none (a falsy value, like Python's None)
NoElement == TextNode(<<>>)

FirstOf(nodes) == IF nodes = <<>> THEN NoElement ELSE nodes[1]

FindTag(soup, tag) ==
    LET P(n) == n.tag = tag IN FirstOf(SelectSeq(Descendants(soup), P))

FindMetaProperty(soup, property) ==
    LET P(n) == n.tag = "meta" /\ n.property = property
    IN  FirstOf(SelectSeq(Descendants(soup), P))

FindMetaName(soup, name) ==
    LET P(n) == n.tag = "meta" /\ n.name = name
    IN  FirstOf(SelectSeq(Descendants(soup), P))

\* urlparse(url).netloc
Netloc(u) ==
    LET sep == <<":", "/", "/">>
        At(i) == SubSeq(u, i, i + 2) = sep
    IN  IF ~\E i \in 1..(Len(u) - 2) : At(i) THEN <<>>
        ELSE LET i0 == CHOOSE i \in 1..(Len(u) - 2) :
                           At(i) /\ \A j \in 1..(i - 1) : ~At(j)
                 rest == SubSeq(u, i0 + 3, Len(u))
                 Stop(k) == rest[k] \in {"/", "?", "#"}
                 n == IF \E k \in 1..Len(rest) : Stop(k)
                      THEN (CHOOSE k \in 1..Len(rest) :
                                Stop(k) /\ \A j \in 1..(k - 1) : ~Stop(j)) - 1
                      ELSE Len(rest)
             IN  SubSeq(rest, 1, n)

\* lines 258-276 trying the <h1> before the Open Graph title
ExtractTitleH1First(soup, url_) ==
    LET title_tag     == FindTag(soup, "title")
        og_title      == FindMetaProperty(soup, "og:title")
        h1_tag        == FindTag(soup, "h1")
        twitter_title == FindMetaName(soup, "twitter:title")
    IN  IF title_tag # NoElement /\ GetText(title_tag, <<>>) # <<>>
        THEN GetText(title_tag, <<>>)
        ELSE IF h1_tag # NoElement /\ GetText(h1_tag, <<>>) # <<>>
        THEN GetText(h1_tag, <<>>)
        ELSE IF og_title # NoElement /\ og_title.content # <<>>
        THEN og_title.content
        ELSE IF twitter_title # NoElement /\ twitter_title.content # <<>>
        THEN twitter_title.content
        ELSE <<"P","a","g","e"," ","f","r","o","m"," ">> \o Netloc(url_)

\* _extract_title (lines 256-284)
ExtractTitle(soup, url_) ==
    LET title_tag     == FindTag(soup, "title")
        og_title      == FindMetaProperty(soup, "og:title")
        h1_tag        == FindTag(soup, "h1")
        twitter_title == FindMetaName(soup, "twitter:title")
    IN  IF title_tag # NoElement /\ GetText(title_tag, <<>>) # <<>>
        THEN GetText(title_tag, <<>>)
        ELSE IF og_title # NoElement /\ og_title.content # <<>>
        THEN og_title.content
        ELSE IF h1_tag # NoElement /\ GetText(h1_tag, <<>>) # <<>>
        THEN GetText(h1_tag, <<>>)
        ELSE IF twitter_title # NoElement /\ twitter_title.content # <<>>
        THEN twitter_title.content
        ELSE <<"P","a","g","e"," ","f","r","o","m"," ">> \o Netloc(url_)

\* _extract_metadata_bs4 (lines 286-310)
ExtractMetadataBs4(soup, url_) ==
    LET desc_tag     == FindMetaName(soup, "description")
        og_desc      == FindMetaProperty(soup, "og:description")
        html_tag     == FindTag(soup, "html")
        keywords_tag == FindMetaName(soup, "keywords")
    IN  [source |-> url_]
        @@ (IF desc_tag # NoElement /\ desc_tag.content # <<>>
            THEN [description |-> desc_tag.content] ELSE <<>>)
        @@ (IF og_desc # NoElement /\ og_desc.content # <<>>
            THEN [og_description |-> og_desc.content] ELSE <<>>)
        @@ (IF html_tag # NoElement /\ html_tag.lang # <<>>
            THEN [language |-> html_tag.lang] ELSE <<>>)
        @@ (IF keywords_tag # NoElement /\ keywords_tag.content # <<>>
            THEN [keywords |-> keywords_tag.content] ELSE <<>>)

\* content_selectors (lines 116-120), in priority order
ContentSelectors ==
    <<Sel("tag", "main"), Sel("tag", "article"), Sel("role", "main"),
      Sel("class", "main-content"), Sel("class", "content"),
      Sel("class", "post-content"), Sel("class", "entry-content"),
      Sel("class", "article-content"), Sel("id", "main"), Sel("id", "content"),
      Sel("id", "article"), SelWithin("container", "content")>>

\* unwanted_selectors (lines 130-134)
UnwantedSelectors ==
    <<Sel("tag", "script"), Sel("tag", "style"), Sel("tag", "nav"),
      Sel("tag", "header"), Sel("tag", "footer"), Sel("tag", "aside"),
      Sel("class", "navigation"), Sel("class", "menu"), Sel("class", "sidebar"),
      Sel("class", "ads"), Sel("class", "advertisement"),
      Sel("class", "social-share"), Sel("class", "comments"),
      Sel("class", "comment"), Sel("role", "navigation")>>

\* the tags whose text is collected (line 149)
TextTags == {"p", "h1", "h2", "h3", "h4", "h5", "h6", "li", "div", "span"}

\* lines 122-127 taking the first element of the document that any selector
\* matches
MainContentFirstInDocument(soup) ==
    LET Region(n) == \E i \in 1..Len(ContentSelectors) :
                        \E m \in 1..Len(Select(soup, ContentSelectors[i], FALSE)) :
                           Select(soup, ContentSelectors[i], FALSE)[m] = n
    IN  FirstOf(SelectSeq(Descendants(soup), Region))

\* main_content (lines 122-127): the first element of the first selector that
\* matches anything, or NoElement
MainContent(soup) ==
    LET Hit(i) == Select(soup, ContentSelectors[i], FALSE) # <<>>
    IN  IF \E i \in 1..Len(ContentSelectors) : Hit(i)
        THEN LET i0 == CHOOSE i \in 1..Len(ContentSelectors) :
                           Hit(i) /\ \A j \in 1..(i - 1) : ~Hit(j)
             IN  Select(soup, ContentSelectors[i0], FALSE)[1]
        ELSE NoElement

\* text_parts (lines 148-152) of the tree content_soup
TextParts(content_soup) ==
    LET Wanted(n) == n.tag \in TextTags
        elements  == SelectSeq(Descendants(content_soup), Wanted)
        texts     == <<>> \o [i \in 1..Len(elements) |-> GetText(elements[i], <<>>)]
        Substantial(t) == t # <<>> /\ Len(t) > MinElementTextLen
    IN  SelectSeq(texts, Substantial)

\* _extract_html_content_bs4 (lines 105-169), BeautifulSoup being available
ExtractHtmlContentBs4(soup, url_) ==
    LET main_content   == MainContent(soup)
        target_element == IF main_content # NoElement THEN main_content
                          ELSE FindTag(soup, "body")
        content_soup   == Decompose(Soup(<<target_element>>), UnwantedSelectors)
        text_parts     == TextParts(content_soup)
        content        ==
            IF target_element # NoElement
            THEN IF text_parts # <<>> THEN Join(<<"\n", "\n">>, text_parts)
                 ELSE GetText(content_soup, <<"\n">>)
            ELSE GetText(soup, <<"\n">>)
    IN  [title    |-> ExtractTitle(soup, url_),
         content  |-> CleanText(content),
         metadata |-> ExtractMetadataBs4(soup, url_),
         source   |-> url_]

\* re.search(open + r'[^>]*>(.*?)' + close, s, re.IGNORECASE | re.DOTALL) for
\* an opening "<tag" and a closing "</tag>": <<start of the match, index of the
\* ">" that ends the opening tag, index where the closing tag starts>>, or
\* <<0, 0, 0>> when nothing matches
FirstBlock(s, open, close) ==
    LET low == Lower(s)
        At(i, w) == i + Len(w) - 1 <= Len(s) /\ SubSeq(low, i, i + Len(w) - 1) = w
        Gt(i) == IF \E g \in (i + Len(open))..Len(s) : s[g] = ">"
                 THEN CHOOSE g \in (i + Len(open))..Len(s) :
                          s[g] = ">" /\ \A k \in (i + Len(open))..(g - 1) : s[k] # ">"
                 ELSE 0
        Close(i) == IF Gt(i) # 0 /\ \E c \in (Gt(i) + 1)..Len(s) : At(c, close)
                    THEN CHOOSE c \in (Gt(i) + 1)..Len(s) :
                             At(c, close) /\ \A k \in (Gt(i) + 1)..(c - 1) : ~At(k, close)
                    ELSE 0
        Match(i) == At(i, open) /\ Close(i) # 0
    IN  IF \E i \in 1..Len(s) : Match(i)
        THEN LET i0 == CHOOSE i \in 1..Len(s) : Match(i) /\ \A j \in 1..(i - 1) : ~Match(j)
             IN  <<i0, Gt(i0), Close(i0)>>
        ELSE <<0, 0, 0>>

\* re.sub(open + r'[^>]*>.*?' + close, '', s, flags=re.IGNORECASE | re.DOTALL)
RECURSIVE RemoveBlocks(_, _, _)
RemoveBlocks(s, open, close) ==
    LET m == FirstBlock(s, open, close)
    IN  IF m[1] = 0 THEN s
        ELSE SubSeq(s, 1, m[1] - 1)
             \o RemoveBlocks(SubSeq(s, m[3] + Len(close), Len(s)), open, close)

\* _extract_html_content_regex (lines 171-193)
ExtractHtmlContentRegex(html, url_) ==
    LET title_match == FirstBlock(html, <<"<","t","i","t","l","e">>,
                                  <<"<","/","t","i","t","l","e",">">>)
        title == IF title_match[1] # 0
                 THEN Strip(SubSeq(html, title_match[2] + 1, title_match[3] - 1))
                 ELSE <<"W","e","b"," ","P","a","g","e">>
        no_script == RemoveBlocks(html, <<"<","s","c","r","i","p","t">>,
                                  <<"<","/","s","c","r","i","p","t",">">>)
        no_style  == RemoveBlocks(no_script, <<"<","s","t","y","l","e">>,
                                  <<"<","/","s","t","y","l","e",">">>)
        text == CollapseSpace(SubTags(no_style, <<" ">>))
    IN  [title    |-> SubTags(title, <<>>),
         content  |-> CleanText(text),
         metadata |-> [source |-> url_, extraction_method |-> <<"r","e","g","e","x">>],
         source   |-> url_]

\* str(status_code) and the reason phrase of the statuses the model's web answers
StatusText(status) ==
    CASE status = 200 -> <<"2","0","0">>
      [] status = 404 -> <<"4","0","4">>
      [] status = 503 -> <<"5","0","3">>

\* Response.raise_for_status: whether it raises, and str() of the HTTPError
RaisesForStatus(o) == 400 <= o.status /\ o.status < 600

HttpErrorMessage(o) ==
    StatusText(o.status)
    \o (IF o.status < 500 THEN <<" ","C","l","i","e","n","t"," ","E","r","r","o","r",":"," ">>
        ELSE <<" ","S","e","r","v","e","r"," ","E","r","r","o","r",":"," ">>)
    \o o.reason \o <<" ","f","o","r"," ","u","r","l",":"," ">> \o o.final_url

\* str(e) of the exception extract_content's try block raises on the fetch
\* outcome o, or NoError when it raises none
NoError == <<"n", "o", "n", "e">>

FetchError(o) ==
    IF o.raised THEN o.exc
    ELSE IF RaisesForStatus(o) THEN HttpErrorMessage(o)
    ELSE NoError

\* lines 96-103 reporting nothing: no content, no 'error' entry
ExtractionFailureSilent(url_, e) ==
    [title    |-> <<"E","r","r","o","r">>,
     content  |-> <<>>,
     metadata |-> [source |-> url_],
     source   |-> url_]

\* the except branch of extract_content (lines 96-103)
ExtractionFailure(url_, e) ==
    [title    |-> <<"E","r","r","o","r",":"," ">> \o e,
     content  |-> <<"F","a","i","l","e","d"," ","t","o"," ","e","x","t","r","a","c","t"," ",
                    "c","o","n","t","e","n","t"," ","f","r","o","m"," ">>
                  \o url_ \o <<":", " ">> \o e,
     metadata |-> [source |-> url_, error |-> e],
     source   |-> url_]

\* the strategy extract_content runs for a content type (lines 82-94)
Strategy(content_type) ==
    IF Contains(content_type, <<"j","s","o","n">>) THEN "json"
    ELSE IF Contains(content_type, <<"x","m","l">>) THEN "xml"
    ELSE IF /\ Contains(content_type, <<"t","e","x","t","/">>)
            /\ ~Contains(content_type, <<"h","t","m","l">>) THEN "plain"
    ELSE "html"

\* extract_content (lines 62-103) on the outcome o of session.get(url)
ExtractContent(o, url_, bs4) ==
    IF FetchError(o) # NoError THEN ExtractionFailure(url_, FetchError(o))
    ELSE LET content_type == Lower(o.ctype)
             strategy == Strategy(content_type)
         IN  CASE strategy = "json"  -> ExtractJsonContent(o.text, o.json, o.final_url)
               [] strategy = "xml"   -> ExtractXmlContent(o.text, o.final_url)
               [] strategy = "plain" -> ExtractPlainText(o.text, o.final_url)
               [] strategy = "html"  ->
                      IF bs4 THEN ExtractHtmlContentBs4(o.soup, o.final_url)
                      ELSE ExtractHtmlContentRegex(o.text, o.final_url)

\* what extract_content did with the outcome o: the strategy it ran, or "failed"
ArmOf(o) == IF FetchError(o) # NoError THEN "failed" ELSE Strategy(Lower(o.ctype))

-----------------------------------------------------------------------------
(* The web the model's fetches draw their outcomes from.                   *)

Url_News == <<"h","t","t","p","s",":","/","/","a",".","n","z","/","1">>

Url_Long == <<"h","t","t","p","s",":","/","/","a",".","n","z","/","2">>

Url_Short == <<"h","t","t","p","s",":","/","/","a",".","n","z","/","3">>

Url_Flaky == <<"h","t","t","p","s",":","/","/","a",".","n","z","/","4">>

Url_Moved == <<"h","t","t","p","s",":","/","/","a",".","n","z","/","m","o","v","e","d">>

\* a destination the multi-engine filter discards
Url_Maps == <<"h","t","t","p","s",":","/","/","w","w","w",".","g","o","o","g","l","e",".","c","o","m","/","m","a","p","s">>

\* <html lang="en"><head><title>NZ News</title><meta name="description" content="Daily news"></head><body><nav>Home | About</nav><main><p>Parliament passed the budget today after a long debate.</p><script>var x = 1;</script></main><footer>Contact us</footer></body></html>
Html_News ==
    <<"<","h","t","m","l"," ","l","a","n","g","=","\"","e","n","\"",">","<","h","e","a","d",">",
      "<","t","i","t","l","e",">","N","Z"," ","N","e","w","s","<","/","t","i","t","l","e",">",
      "<","m","e","t","a"," ","n","a","m","e","=","\"","d","e","s","c","r","i","p","t","i","o",
      "n","\""," ","c","o","n","t","e","n","t","=","\"","D","a","i","l","y"," ","n","e","w","s",
      "\"",">","<","/","h","e","a","d",">","<","b","o","d","y",">","<","n","a","v",">","H","o",
      "m","e"," ","|"," ","A","b","o","u","t","<","/","n","a","v",">","<","m","a","i","n",">",
      "<","p",">","P","a","r","l","i","a","m","e","n","t"," ","p","a","s","s","e","d"," ","t",
      "h","e"," ","b","u","d","g","e","t"," ","t","o","d","a","y"," ","a","f","t","e","r"," ",
      "a"," ","l","o","n","g"," ","d","e","b","a","t","e",".","<","/","p",">","<","s","c","r",
      "i","p","t",">","v","a","r"," ","x"," ","="," ","1",";","<","/","s","c","r","i","p","t",
      ">","<","/","m","a","i","n",">","<","f","o","o","t","e","r",">","C","o","n","t","a","c",
      "t"," ","u","s","<","/","f","o","o","t","e","r",">","<","/","b","o","d","y",">","<","/",
      "h","t","m","l",">">>

\* BeautifulSoup(Html_News, 'html.parser')
Soup_News ==
    Soup(<<[Elem("html", "", {}, "",
              <<Elem("head", "", {}, "",
                  <<Elem("title", "", {}, "",
                      <<TextNode(<<"N","Z"," ","N","e","w","s">>)>>),
                  Meta("description", "", <<"D","a","i","l","y"," ","n","e","w","s">>)>>),
              Elem("body", "", {}, "",
                  <<Elem("nav", "", {}, "",
                      <<TextNode(<<"H","o","m","e"," ","|"," ","A","b","o","u","t">>)>>),
                  Elem("main", "", {}, "",
                      <<Elem("p", "", {}, "",
                          <<TextNode(<<"P","a","r","l","i","a","m","e","n","t"," ","p","a","s","s","e","d"," ","t","h","e"," ","b","u","d","g","e","t"," ","t","o","d","a","y"," ","a","f","t","e","r"," ","a"," ","l","o","n","g"," ","d","e","b","a","t","e",".">>)>>),
                      Elem("script", "", {}, "",
                          <<TextNode(<<"v","a","r"," ","x"," ","="," ","1",";">>)>>)>>),
                  Elem("footer", "", {}, "",
                      <<TextNode(<<"C","o","n","t","a","c","t"," ","u","s">>)>>)>>)>>) EXCEPT !.lang = <<"e","n">>]>>)

\* <html><body><p>Too short.</p></body></html>
Html_Short ==
    <<"<","h","t","m","l",">","<","b","o","d","y",">","<","p",">","T","o","o"," ","s","h","o",
      "r","t",".","<","/","p",">","<","/","b","o","d","y",">","<","/","h","t","m","l",">">>

\* BeautifulSoup(Html_Short, 'html.parser')
Soup_Short ==
    Soup(<<Elem("html", "", {}, "",
              <<Elem("body", "", {}, "",
                  <<Elem("p", "", {}, "",
                      <<TextNode(<<"T","o","o"," ","s","h","o","r","t",".">>)>>)>>)>>)>>)

\* <html><head><meta property="og:title" content="Harbour"></head><body><div class="content"><h1>Harbour</h1><span>The ferry timetable changes on Monday for the summer season.</span></div></body></html>
Html_Harbour ==
    <<"<","h","t","m","l",">","<","h","e","a","d",">","<","m","e","t","a"," ","p","r","o","p",
      "e","r","t","y","=","\"","o","g",":","t","i","t","l","e","\""," ","c","o","n","t","e","n",
      "t","=","\"","H","a","r","b","o","u","r","\"",">","<","/","h","e","a","d",">","<","b","o",
      "d","y",">","<","d","i","v"," ","c","l","a","s","s","=","\"","c","o","n","t","e","n","t",
      "\"",">","<","h","1",">","H","a","r","b","o","u","r","<","/","h","1",">","<","s","p","a",
      "n",">","T","h","e"," ","f","e","r","r","y"," ","t","i","m","e","t","a","b","l","e"," ",
      "c","h","a","n","g","e","s"," ","o","n"," ","M","o","n","d","a","y"," ","f","o","r"," ",
      "t","h","e"," ","s","u","m","m","e","r"," ","s","e","a","s","o","n",".","<","/","s","p",
      "a","n",">","<","/","d","i","v",">","<","/","b","o","d","y",">","<","/","h","t","m","l",
      ">">>

\* BeautifulSoup(Html_Harbour, 'html.parser')
Soup_Harbour ==
    Soup(<<Elem("html", "", {}, "",
              <<Elem("head", "", {}, "",
                  <<Meta("", "og:title", <<"H","a","r","b","o","u","r">>)>>),
              Elem("body", "", {}, "",
                  <<Elem("div", "", {"content"}, "",
                      <<Elem("h1", "", {}, "",
                          <<TextNode(<<"H","a","r","b","o","u","r">>)>>),
                      Elem("span", "", {}, "",
                          <<TextNode(<<"T","h","e"," ","f","e","r","r","y"," ","t","i","m","e","t","a","b","l","e"," ","c","h","a","n","g","e","s"," ","o","n"," ","M","o","n","d","a","y"," ","f","o","r"," ","t","h","e"," ","s","u","m","m","e","r"," ","s","e","a","s","o","n",".">>)>>)>>)>>)>>)>>)

\* the length of the long plain-text page, and where its only "." sits
LongTextLen == 900

SentenceEnd == 700

\* a plain-text body longer than search's snippet window, of words of six
\* letters, with one sentence end
LongText ==
    <<>> \o [i \in 1..LongTextLen |->
        IF i = SentenceEnd THEN "." ELSE IF i % 7 = 0 THEN " " ELSE "a"]

\* {"summary": "The quick brown fox jumps over it", "n": 1}
Text_Json ==
    <<"{","\"","s","u","m","m","a","r","y","\"",":"," ","\"","T","h","e"," ","q","u","i","c",
      "k"," ","b","r","o","w","n"," ","f","o","x"," ","j","u","m","p","s"," ","o","v","e","r",
      " ","i","t","\"",","," ","\"","n","\"",":"," ","1","}">>

\* json.loads(Text_Json)
Json_Summary ==
    JDict(<<[k |-> <<"s","u","m","m","a","r","y">>,
             v |-> JStr(<<"T","h","e"," ","q","u","i","c","k"," ","b","r","o","w","n"," ","f","o","x"," ","j","u","m",
  "p","s"," ","o","v","e","r"," ","i","t">>)],
            [k |-> <<"n">>, v |-> JNum(<<"1">>)]>>)

\* a body json.loads raises JSONDecodeError on: {"summary":
Text_BadJson == <<"{","\"","s","u","m","m","a","r","y","\"",":"," ">>

\* <rss><title>Feed</title><item>First item of the feed</item></rss>
Text_Xml ==
    <<"<","r","s","s",">","<","t","i","t","l","e",">","F","e","e","d","<","/","t","i","t","l",
      "e",">","<","i","t","e","m",">","F","i","r","s","t"," ","i","t","e","m"," ","o","f"," ",
      "t","h","e"," ","f","e","e","d","<","/","i","t","e","m",">","<","/","r","s","s",">">>

\* The outcome of one session.get: it raised (exc is str() of the exception),
\* or it returned a response.
Raised(exc) ==
    [raised |-> TRUE, exc |-> exc, status |-> 0, reason |-> <<>>, final_url |-> <<>>,
     ctype |-> <<>>, text |-> <<>>, json |-> JInvalid, soup |-> Soup(<<>>)]

Status(final_url, status, reason) ==
    [raised |-> FALSE, exc |-> <<>>, status |-> status, reason |-> reason,
     final_url |-> final_url, ctype |-> <<"t","e","x","t","/","h","t","m","l">>, text |-> <<>>,
     json |-> JInvalid, soup |-> Soup(<<>>)]

Page(final_url, ctype, text, json, soup) ==
    [raised |-> FALSE, exc |-> <<>>, status |-> 200, reason |-> <<"O", "K">>,
     final_url |-> final_url, ctype |-> ctype, text |-> text, json |-> json,
     soup |-> soup]

\* str() of requests.exceptions.TooManyRedirects
TooManyRedirects == <<"E","x","c","e","e","d","e","d"," ","3","0"," ","r","e","d","i","r","e","c","t","s",".">>

NotFound(u) == Status(u, 404, <<"N","o","t"," ","F","o","u","n","d">>)

Unavailable(u) == Status(u, 503, <<"S","e","r","v","i","c","e"," ","U","n","a","v","a","i","l","a","b","l","e">>)

HtmlPage(u, html, soup) ==
    Page(u, <<"t","e","x","t","/","h","t","m","l",";"," ","c","h","a","r","s","e","t","=","U","T","F","-","8">>, html, JInvalid, soup)

\* what a fetch of u can answer while search runs: a page per known address (the
\* flaky one may also be missing, or nearly empty), and for any other address a redirect loop or
\* a page with next to no text
Web(u) ==
    CASE u = Url_News  -> {HtmlPage(u, Html_News, Soup_News)}
      [] u = Url_Long  -> {Page(u, <<"t","e","x","t","/","p","l","a","i","n">>, LongText, JInvalid, Soup(<<>>))}
      [] u = Url_Short -> {HtmlPage(u, Html_Short, Soup_Short)}
      [] u = Url_Flaky -> {NotFound(u), HtmlPage(u, Html_Harbour, Soup_Harbour),
                           HtmlPage(u, Html_Short, Soup_Short)}
      [] OTHER         -> {Raised(TooManyRedirects), HtmlPage(u, Html_Short, Soup_Short)}

\* what a fetch of u can answer when extract_content or fetch_website_content is
\* called on its own: every kind of failure and every declared content type
AnyOutcome(u) ==
    LET
        \* <html><head><title>Ferry news</title></head><body><div class="content"><p>Teaser for the side column.</p></div><article><nav>Sections: local, world</nav><p>The ferry left the wharf late on Monday.</p><p>Crew blamed a fault in the ramp, which\njammed twice at noon.</p><div class="ads">Buy two tickets now</div><p>The harbour board says the summer timetable starts next week, with six extra sailings a day between the city and the island, and a late boat on Fridays for people who work in town and go home so late.</p><div class="comments"><p>First comment on the story</p></div></article><footer>Contact the desk</footer></body></html>
        html_article ==
            <<"<","h","t","m","l",">","<","h","e","a","d",">","<","t","i","t","l","e",">","F",
              "e","r","r","y"," ","n","e","w","s","<","/","t","i","t","l","e",">","<","/","h",
              "e","a","d",">","<","b","o","d","y",">","<","d","i","v"," ","c","l","a","s","s",
              "=","\"","c","o","n","t","e","n","t","\"",">","<","p",">","T","e","a","s","e","r",
              " ","f","o","r"," ","t","h","e"," ","s","i","d","e"," ","c","o","l","u","m","n",
              ".","<","/","p",">","<","/","d","i","v",">","<","a","r","t","i","c","l","e",">",
              "<","n","a","v",">","S","e","c","t","i","o","n","s",":"," ","l","o","c","a","l",
              ","," ","w","o","r","l","d","<","/","n","a","v",">","<","p",">","T","h","e"," ",
              "f","e","r","r","y"," ","l","e","f","t"," ","t","h","e"," ","w","h","a","r","f",
              " ","l","a","t","e"," ","o","n"," ","M","o","n","d","a","y",".","<","/","p",">",
              "<","p",">","C","r","e","w"," ","b","l","a","m","e","d"," ","a"," ","f","a","u",
              "l","t"," ","i","n"," ","t","h","e"," ","r","a","m","p",","," ","w","h","i","c",
              "h","\n","j","a","m","m","e","d"," ","t","w","i","c","e"," ","a","t"," ","n","o",
              "o","n",".","<","/","p",">","<","d","i","v"," ","c","l","a","s","s","=","\"","a",
              "d","s","\"",">","B","u","y"," ","t","w","o"," ","t","i","c","k","e","t","s"," ",
              "n","o","w","<","/","d","i","v",">","<","p",">","T","h","e"," ","h","a","r","b",
              "o","u","r"," ","b","o","a","r","d"," ","s","a","y","s"," ","t","h","e"," ","s",
              "u","m","m","e","r"," ","t","i","m","e","t","a","b","l","e"," ","s","t","a","r",
              "t","s"," ","n","e","x","t"," ","w","e","e","k",","," ","w","i","t","h"," ","s",
              "i","x"," ","e","x","t","r","a"," ","s","a","i","l","i","n","g","s"," ","a"," ",
              "d","a","y"," ","b","e","t","w","e","e","n"," ","t","h","e"," ","c","i","t","y",
              " ","a","n","d"," ","t","h","e"," ","i","s","l","a","n","d",","," ","a","n","d",
              " ","a"," ","l","a","t","e"," ","b","o","a","t"," ","o","n"," ","F","r","i","d",
              "a","y","s"," ","f","o","r"," ","p","e","o","p","l","e"," ","w","h","o"," ","w",
              "o","r","k"," ","i","n"," ","t","o","w","n"," ","a","n","d"," ","g","o"," ","h",
              "o","m","e"," ","s","o"," ","l","a","t","e",".","<","/","p",">","<","d","i","v",
              " ","c","l","a","s","s","=","\"","c","o","m","m","e","n","t","s","\"",">","<","p",
              ">","F","i","r","s","t"," ","c","o","m","m","e","n","t"," ","o","n"," ","t","h",
              "e"," ","s","t","o","r","y","<","/","p",">","<","/","d","i","v",">","<","/","a",
              "r","t","i","c","l","e",">","<","f","o","o","t","e","r",">","C","o","n","t","a",
              "c","t"," ","t","h","e"," ","d","e","s","k","<","/","f","o","o","t","e","r",">",
              "<","/","b","o","d","y",">","<","/","h","t","m","l",">">>
        \* BeautifulSoup(html_article, 'html.parser')
        soup_article ==
            Soup(<<Elem("html", "", {}, "",
                  <<Elem("head", "", {}, "",
                      <<Elem("title", "", {}, "",
                          <<TextNode(<<"F","e","r","r","y"," ","n","e","w","s">>)>>)>>),
                    Elem("body", "", {}, "",
                      <<Elem("div", "", {"content"}, "",
                          <<Elem("p", "", {}, "",
                              <<TextNode(<<"T","e","a","s","e","r"," ","f","o","r"," ","t","h","e"," ","s","i","d","e"," ","c","o","l","u","m","n",".">>)>>)>>),
                        Elem("article", "", {}, "",
                          <<Elem("nav", "", {}, "",
                              <<TextNode(<<"S","e","c","t","i","o","n","s",":"," ","l","o","c","a","l",","," ","w","o","r","l","d">>)>>),
                            Elem("p", "", {}, "",
                              <<TextNode(<<"T","h","e"," ","f","e","r","r","y"," ","l","e","f","t"," ","t","h","e"," ","w","h","a","r","f"," ","l","a","t","e"," ","o","n"," ","M","o","n","d","a","y",".">>)>>),
                            Elem("p", "", {}, "",
                              <<TextNode(<<"C","r","e","w"," ","b","l","a","m","e","d"," ","a"," ","f","a","u","l","t"," ","i","n"," ","t","h","e"," ","r","a","m","p",","," ","w","h","i","c","h","\n","j","a","m","m","e","d"," ","t","w","i","c","e"," ","a","t"," ","n","o","o","n",".">>)>>),
                            Elem("div", "", {"ads"}, "",
                              <<TextNode(<<"B","u","y"," ","t","w","o"," ","t","i","c","k","e","t","s"," ","n","o","w">>)>>),
                            Elem("p", "", {}, "",
                              <<TextNode(<<"T","h","e"," ","h","a","r","b","o","u","r"," ","b","o","a","r","d"," ","s","a","y","s"," ","t","h","e"," ","s","u","m","m","e","r"," ","t","i","m","e","t","a","b","l","e"," ","s","t","a","r","t","s"," ","n","e","x","t"," ","w","e","e","k",","," ","w","i","t","h"," ","s","i","x"," ","e","x","t","r","a"," ","s","a","i","l","i","n","g","s"," ","a"," ","d","a","y"," ","b","e","t","w","e","e","n"," ","t","h","e"," ","c","i","t","y"," ","a","n","d"," ","t","h","e"," ","i","s","l","a","n","d",","," ","a","n","d"," ","a"," ","l","a","t","e"," ","b","o","a","t"," ","o","n"," ","F","r","i","d","a","y","s"," ","f","o","r"," ","p","e","o","p","l","e"," ","w","h","o"," ","w","o","r","k"," ","i","n"," ","t","o","w","n"," ","a","n","d"," ","g","o"," ","h","o","m","e"," ","s","o"," ","l","a","t","e",".">>)>>),
                            Elem("div", "", {"comments"}, "",
                              <<Elem("p", "", {}, "",
                                  <<TextNode(<<"F","i","r","s","t"," ","c","o","m","m","e","n","t"," ","o","n"," ","t","h","e"," ","s","t","o","r","y">>)>>)>>)>>),
                        Elem("footer", "", {}, "",
                          <<TextNode(<<"C","o","n","t","a","c","t"," ","t","h","e"," ","d","e","s","k">>)>>)>>)>>)>>)
        \* <html><body><header>Harbour Board</header><p>The wharf reopens on Friday morning.</p><aside>Tide tables here</aside><span>Short</span></body></html>
        html_plain ==
            <<"<","h","t","m","l",">","<","b","o","d","y",">","<","h","e","a","d","e","r",">",
              "H","a","r","b","o","u","r"," ","B","o","a","r","d","<","/","h","e","a","d","e",
              "r",">","<","p",">","T","h","e"," ","w","h","a","r","f"," ","r","e","o","p","e",
              "n","s"," ","o","n"," ","F","r","i","d","a","y"," ","m","o","r","n","i","n","g",
              ".","<","/","p",">","<","a","s","i","d","e",">","T","i","d","e"," ","t","a","b",
              "l","e","s"," ","h","e","r","e","<","/","a","s","i","d","e",">","<","s","p","a",
              "n",">","S","h","o","r","t","<","/","s","p","a","n",">","<","/","b","o","d","y",
              ">","<","/","h","t","m","l",">">>
        \* BeautifulSoup(html_plain, 'html.parser')
        soup_plain ==
            Soup(<<Elem("html", "", {}, "",
                  <<Elem("body", "", {}, "",
                      <<Elem("header", "", {}, "",
                          <<TextNode(<<"H","a","r","b","o","u","r"," ","B","o","a","r","d">>)>>),
                        Elem("p", "", {}, "",
                          <<TextNode(<<"T","h","e"," ","w","h","a","r","f"," ","r","e","o","p","e","n","s"," ","o","n"," ","F","r","i","d","a","y"," ","m","o","r","n","i","n","g",".">>)>>),
                        Elem("aside", "", {}, "",
                          <<TextNode(<<"T","i","d","e"," ","t","a","b","l","e","s"," ","h","e","r","e">>)>>),
                        Elem("span", "", {}, "",
                          <<TextNode(<<"S","h","o","r","t">>)>>)>>)>>)>>)
        \* <html><head><title> </title><meta property="og:title" content="Quay"></head><body><h1>Dock</h1></body></html>
        html_og ==
            <<"<","h","t","m","l",">","<","h","e","a","d",">","<","t","i","t","l","e",">"," ",
              "<","/","t","i","t","l","e",">","<","m","e","t","a"," ","p","r","o","p","e","r",
              "t","y","=","\"","o","g",":","t","i","t","l","e","\""," ","c","o","n","t","e","n",
              "t","=","\"","Q","u","a","y","\"",">","<","/","h","e","a","d",">","<","b","o","d",
              "y",">","<","h","1",">","D","o","c","k","<","/","h","1",">","<","/","b","o","d",
              "y",">","<","/","h","t","m","l",">">>
        \* BeautifulSoup(html_og, 'html.parser')
        soup_og ==
            Soup(<<Elem("html", "", {}, "",
                  <<Elem("head", "", {}, "",
                      <<Elem("title", "", {}, "",
                          <<TextNode(<<" ">>)>>),
                        Meta("", "og:title", <<"Q","u","a","y">>)>>),
                    Elem("body", "", {}, "",
                      <<Elem("h1", "", {}, "",
                          <<TextNode(<<"D","o","c","k">>)>>)>>)>>)>>)
        \* <html><head><meta name="twitter:title" content="Pier"></head><body><h1>Dock</h1><p>The dock opens at nine.</p></body></html>
        html_h1 ==
            <<"<","h","t","m","l",">","<","h","e","a","d",">","<","m","e","t","a"," ","n","a",
              "m","e","=","\"","t","w","i","t","t","e","r",":","t","i","t","l","e","\""," ","c",
              "o","n","t","e","n","t","=","\"","P","i","e","r","\"",">","<","/","h","e","a","d",
              ">","<","b","o","d","y",">","<","h","1",">","D","o","c","k","<","/","h","1",">",
              "<","p",">","T","h","e"," ","d","o","c","k"," ","o","p","e","n","s"," ","a","t",
              " ","n","i","n","e",".","<","/","p",">","<","/","b","o","d","y",">","<","/","h",
              "t","m","l",">">>
        \* BeautifulSoup(html_h1, 'html.parser')
        soup_h1 ==
            Soup(<<Elem("html", "", {}, "",
                  <<Elem("head", "", {}, "",
                      <<Meta("twitter:title", "", <<"P","i","e","r">>)>>),
                    Elem("body", "", {}, "",
                      <<Elem("h1", "", {}, "",
                          <<TextNode(<<"D","o","c","k">>)>>),
                        Elem("p", "", {}, "",
                          <<TextNode(<<"T","h","e"," ","d","o","c","k"," ","o","p","e","n","s"," ","a","t"," ","n","i","n","e",".">>)>>)>>)>>)>>)
        \* <html><head><meta name="twitter:title" content="Pier"></head><body><h1> </h1><h1>Dock</h1></body></html>
        html_twitter ==
            <<"<","h","t","m","l",">","<","h","e","a","d",">","<","m","e","t","a"," ","n","a",
              "m","e","=","\"","t","w","i","t","t","e","r",":","t","i","t","l","e","\""," ","c",
              "o","n","t","e","n","t","=","\"","P","i","e","r","\"",">","<","/","h","e","a","d",
              ">","<","b","o","d","y",">","<","h","1",">"," ","<","/","h","1",">","<","h","1",
              ">","D","o","c","k","<","/","h","1",">","<","/","b","o","d","y",">","<","/","h",
              "t","m","l",">">>
        \* BeautifulSoup(html_twitter, 'html.parser')
        soup_twitter ==
            Soup(<<Elem("html", "", {}, "",
                  <<Elem("head", "", {}, "",
                      <<Meta("twitter:title", "", <<"P","i","e","r">>)>>),
                    Elem("body", "", {}, "",
                      <<Elem("h1", "", {}, "",
                          <<TextNode(<<" ">>)>>),
                        Elem("h1", "", {}, "",
                          <<TextNode(<<"D","o","c","k">>)>>)>>)>>)>>)
    IN
    {Raised(TooManyRedirects), NotFound(u), Unavailable(u),
     HtmlPage(u, html_article, soup_article),
     HtmlPage(u, html_plain, soup_plain),
     HtmlPage(u, html_og, soup_og),
     HtmlPage(u, html_h1, soup_h1),
     HtmlPage(u, html_twitter, soup_twitter),
     HtmlPage(u, Html_News, Soup_News),
     HtmlPage(Url_Moved, Html_Harbour, Soup_Harbour),
     HtmlPage(u, Html_Short, Soup_Short),
     Page(u, <<"t","e","x","t","/","h","t","m","l">>, <<>>, JInvalid, Soup(<<>>)),
     Page(u, <<>>, Html_Harbour, JInvalid, Soup_Harbour),
     Page(u, <<"a","p","p","l","i","c","a","t","i","o","n","/","x","h","t","m","l","+","x","m","l">>, Html_News, JInvalid, Soup_News),
     Page(u, <<"t","e","x","t","/","p","l","a","i","n">>, LongText, JInvalid, Soup(<<>>)),
     Page(u, <<"a","p","p","l","i","c","a","t","i","o","n","/","j","s","o","n">>, Text_Json, Json_Summary, Soup(<<>>)),
     Page(u, <<"a","p","p","l","i","c","a","t","i","o","n","/","j","s","o","n">>, Text_BadJson, JInvalid, Soup(<<>>)),
     Page(u, <<"a","p","p","l","i","c","a","t","i","o","n","/","x","m","l">>, Text_Xml, JInvalid, Soup(<<>>))}

-----------------------------------------------------------------------------
(* DuckDuckGoSearch: the three backends.  A candidate (WebSearchResult) is *)
(* a record of title, url and snippet.                                     *)

WebSearchResult(title, url_, snippet) ==
    [title |-> title, url |-> url_, snippet |-> snippet]

\* _search_alternative cuts a destination's content to this window (line 449)
AltSnippetWindow == 600

\* _extract_result_urls stops collecting at this many matches (line 511) and
\* returns this many (line 516)
UrlCollectCap == 10

UrlReturnCap == 5

\* content must be longer than this, stripped, to count (lines 381, 442)
MinContentLen == 50

\* search_engines (lines 418-422): the providers, in the order they are queried
SearchEngines(q) ==
    <<[name |-> "startpage", url |-> <<"h","t","t","p","s",":","/","/","w","w","w",".","s","t","a","r","t","p","a","g","e",".","c","o","m","/","s","p","/","s","e","a","r","c","h","?","q","u","e","r","y","=">> \o Quote(q)],
      [name |-> "bing", url |-> <<"h","t","t","p","s",":","/","/","w","w","w",".","b","i","n","g",".","c","o","m","/","s","e","a","r","c","h","?","q","=">> \o Quote(q)],
      [name |-> "yahoo", url |-> <<"h","t","t","p","s",":","/","/","s","e","a","r","c","h",".","y","a","h","o","o",".","c","o","m","/","s","e","a","r","c","h","?","p","=">> \o Quote(q)]>>

\* the substrings that make _extract_result_urls discard a match (lines 507-509)
SkipSubstrings ==
    <<<<"g","o","o","g","l","e",".","c","o","m">>,
      <<"b","i","n","g",".","c","o","m">>,
      <<"y","a","h","o","o",".","c","o","m">>,
      <<"s","t","a","r","t","p","a","g","e",".","c","o","m">>,
      <<"f","a","c","e","b","o","o","k",".","c","o","m">>,
      <<"t","w","i","t","t","e","r",".","c","o","m">>,
      <<"y","o","u","t","u","b","e",".","c","o","m","/","w","a","t","c","h">>,
      <<"j","a","v","a","s","c","r","i","p","t",":">>,
      <<"m","a","i","l","t","o",":">>,
      <<"#">>>>

\* _extract_result_urls (lines 472-516); page.m1 and page.m2 are what re.findall
\* returns on the page for the first and the second pattern of the engine
ExtractResultUrls(page) ==
    LET Wanted(m) == ~\E k \in 1..Len(SkipSubstrings) : Contains(m, SkipSubstrings[k])
        urls1 == Take(SelectSeq(page.m1, Wanted), UrlCollectCap)
        urls2 == Take(SelectSeq(page.m2, Wanted), UrlCollectCap)
        urls  == IF urls1 # <<>> THEN urls1 ELSE urls2
    IN  Take(urls, UrlReturnCap)

\* line 449 leaving the snippet for search to fill
AltSnippetEmpty(page_content) == <<>>

\* the snippet _search_alternative gives a destination (line 449)
AltSnippet(page_content) ==
    IF Len(page_content) > AltSnippetWindow
    THEN Take(page_content, AltSnippetWindow) \o <<".", ".", ".">>
    ELSE page_content

\* whether a destination's extracted content makes it a candidate (line 442)
Substantial(page_content) ==
    page_content # <<>> /\ Len(Strip(page_content)) > MinContentLen

\* basic_result (lines 463-467)
BasicResult(q) ==
    WebSearchResult(
        <<"S","e","a","r","c","h"," ","r","e","s","u","l","t","s"," ","f","o","r"," ","'">> \o q \o <<"'">>,
        <<"h","t","t","p","s",":","/","/","w","w","w",".","g","o","o","g","l","e",".","c","o","m","/","s","e","a","r","c","h","?","q","=">> \o Quote(q),
        <<"S","e","a","r","c","h"," ","q","u","e","r","y",":"," ">> \o q
        \o <<"."," ","M","u","l","t","i","p","l","e"," ","s","e","a","r","c","h"," ","e","n","g",
            "i","n","e","s"," ","w","e","r","e"," ","q","u","e","r","i","e","d"," ","f","o","r",
            " ","t","h","i","s"," ","i","n","f","o","r","m","a","t","i","o","n",".">>)

\* line 462 with a test that never holds: basic_result is never added
NeedsBasicResultNever(collected, limit) == FALSE

\* line 462 testing for an empty list instead of a list shorter than max_results
NeedsBasicResultWhenEmpty(collected, limit) == collected = <<>>

\* line 462 without the test: basic_result is always added
NeedsBasicResultAlways(collected, limit) == TRUE

\* whether _search_alternative adds basic_result to what it collected (line 462)
NeedsBasicResult(collected, limit) == Len(collected) < limit

\* html.unescape, on the entities the model's pages use
Unescape(s) ==
    LET Ent  == <<[e |-> <<"&","a","m","p",";">>, c |-> "&"],
                  [e |-> <<"&","l","t",";">>, c |-> "<"],
                  [e |-> <<"&","g","t",";">>, c |-> ">"],
                  [e |-> <<"&","q","u","o","t",";">>, c |-> "\""],
                  [e |-> <<"&","#","3","9",";">>, c |-> "'"]>>
        At(i, k)   == /\ i + Len(Ent[k].e) - 1 <= Len(s)
                      /\ SubSeq(s, i, i + Len(Ent[k].e) - 1) = Ent[k].e
        Starts(i)  == \E k \in 1..Len(Ent) : At(i, k)
        Covered(i) == \E j \in (i - 5)..(i - 1) : \E k \in 1..Len(Ent) :
                          j >= 1 /\ At(j, k) /\ i <= j + Len(Ent[k].e) - 1
        Shown(i)   == ~Covered(i)
        t   == [i \in 1..Len(s) |->
                   IF Starts(i) THEN Ent[CHOOSE k \in 1..Len(Ent) : At(i, k)].c ELSE s[i]]
        idx == SelectSeq([i \in 1..Len(s) |-> i], Shown)
    IN  <<>> \o [k \in 1..Len(idx) |-> t[idx[k]]]

\* re.sub(r'<[^>]*>', '', s): as SubTags, but "<>" is a tag too
SubEmptyTags(s) ==
    LET NextGt(p)  == IF \E j \in p..Len(s) : s[j] = ">"
                      THEN CHOOSE j \in p..Len(s) :
                               s[j] = ">" /\ \A k \in p..(j - 1) : s[k] # ">"
                      ELSE 0
        PrevGt(p)  == IF \E j \in 1..(p - 1) : s[j] = ">"
                      THEN CHOOSE j \in 1..(p - 1) :
                               s[j] = ">" /\ \A k \in (j + 1)..(p - 1) : s[k] # ">"
                      ELSE 0
        Opens(p)   == {i \in (PrevGt(p) + 1)..p : s[i] = "<"}
        Shown(p)   == Opens(p) = {} \/ NextGt(p) = 0
        idx == SelectSeq([p \in 1..Len(s) |-> p], Shown)
    IN  <<>> \o [k \in 1..Len(idx) |-> s[idx[k]]]

\* _clean_html_text (lines 727-741)
CleanHtmlText(text) == Strip(Join(<<" ">>, Split(SubEmptyTags(Unescape(text)))))

\* the words that make a query a weather query (line 672)
WeatherWords == <<<<"w","e","a","t","h","e","r">>,
                <<"t","e","m","p","e","r","a","t","u","r","e">>,
                <<"f","o","r","e","c","a","s","t">>>>

\* the words the city is not taken from (line 675)
NotCityWords == <<<<"w","e","a","t","h","e","r">>,
                <<"t","e","m","p","e","r","a","t","u","r","e">>,
                <<"f","o","r","e","c","a","s","t">>,
                <<"c","u","r","r","e","n","t">>,
                <<"t","o","d","a","y">>>>

IsWeatherQuery(q) ==
    \E k \in 1..Len(WeatherWords) : Contains(Lower(q), WeatherWords[k])

\* lines 673-677 without the test of line 675: the city is the first word
WeatherCityFirstWord(q) ==
    LET words == Split(Lower(q))
    IN  IF words # <<>> THEN words[1] ELSE <<"a","u","c","k","l","a","n","d">>

\* the city of a weather query (lines 673-677)
WeatherCity(q) ==
    LET words == Split(Lower(q))
        IsCity(w) == ~\E k \in 1..Len(NotCityWords) : w = NotCityWords[k]
        cities == SelectSeq(words, IsCity)
    IN  IF cities # <<>> THEN cities[1] ELSE <<"a","u","c","k","l","a","n","d">>

\* the two weather candidates (lines 679-690)
WeatherResults(q) ==
    LET city == WeatherCity(q)
    IN  <<WebSearchResult(<<"W","e","a","t","h","e","r"," ","f","o","r"," ">> \o Title(city),
                          <<"h","t","t","p","s",":","/","/","w","w","w",".","t","i","m","e",
                              "a","n","d","d","a","t","e",".","c","o","m","/","w","e","a","t",
                              "h","e","r","/","n","e","w","-","z","e","a","l","a","n","d","/">>
                          \o city,
                          <<>>),
          WebSearchResult(Title(city) \o <<" ","W","e","a","t","h","e","r"," ","F","o","r","e","c","a","s","t">>,
                          <<"h","t","t","p","s",":","/","/","w","e","a","t","h","e","r",".",
                              "y","a","h","o","o",".","c","o","m","/","n","e","w","-","z","e",
                              "a","l","a","n","d","/">>
                          \o city \o <<"/">> \o city \o <<"-","2","3","4","8","3","2","7">>,
                          <<>>)>>

\* skip_domains (line 697)
SkipDomains == <<<<"d","u","c","k","d","u","c","k","g","o",".","c","o","m">>,
               <<"d","d","g",".","g","g">>,
               <<"d","u","c","k",".","c","o">>,
               <<"d","u","c","k","d","u","c","k","g","o",".","o","r","g">>>>

\* _search_html (lines 611-725) on the outcome o of its one fetch; o.m1, o.m2 and
\* o.m3 are what re.findall returns for the three patterns, each match a pair
\* <<url, title>>
SearchHtml(o, q, limit) ==
    IF o.raised \/ RaisesForStatus(o) THEN <<>>
    ELSE LET links == IF o.m1 # <<>> THEN o.m1 ELSE IF o.m2 # <<>> THEN o.m2 ELSE o.m3
             Passes(l) ==
                 /\ ~\E k \in 1..Len(SkipDomains) : Contains(l[1], SkipDomains[k])
                 /\ StartsWith(l[1], <<"h","t","t","p">>)
                 /\ Len(Strip(l[2])) >= 3
                 /\ CleanHtmlText(l[2]) # <<>>
                 /\ l[1] # <<>>
             filtered_results == Take(SelectSeq(Take(links, limit * 2), Passes), limit)
         IN  IF links = <<>> /\ IsWeatherQuery(q) THEN WeatherResults(q)
             ELSE <<>> \o [i \in 1..Len(filtered_results) |->
                      WebSearchResult(CleanHtmlText(filtered_results[i][2]),
                                      filtered_results[i][1], <<>>)]

\* _search_instant_answer (lines 567-609) on the outcome o of its one fetch; o.data
\* is what instant_response.json() returns.  A topic whose FirstURL is a string
\* makes topic.get('FirstURL', {}).get raise AttributeError, which the
\* except branch turns into the empty list.
SearchInstantAnswer(o, q, limit) ==
    IF o.raised \/ RaisesForStatus(o) \/ o.bad_json THEN <<>>
    ELSE LET data == o.data
             abstract ==
                 IF data.AbstractText # <<>>
                 THEN <<WebSearchResult(IF data.has_heading THEN data.Heading ELSE q,
                                        data.AbstractURL, data.AbstractText)>>
                 ELSE <<>>
             Usable(t) == t.is_dict /\ t.has_text
             topics == SelectSeq(Take(data.RelatedTopics, limit - Len(abstract)), Usable)
             TopicResult(t) ==
                 WebSearchResult(
                     IF t.first_url = "dict" THEN t.link_text
                     ELSE <<"R","e","l","a","t","e","d"," ","T","o","p","i","c">>,
                     IF t.first_url = "dict" THEN t.link_url ELSE <<>>,
                     t.text)
         IN  IF \E i \in 1..Len(topics) : topics[i].first_url = "str" THEN <<>>
             ELSE abstract \o [i \in 1..Len(topics) |-> TopicResult(topics[i])]

-----------------------------------------------------------------------------
(* What the search providers answer.                                       *)

EnginePage(m1, m2) == [raised |-> FALSE, status |-> 200, m1 |-> m1, m2 |-> m2]

EngineRaised == [raised |-> TRUE, status |-> 0, m1 |-> <<>>, m2 |-> <<>>]

EngineBlocked == [raised |-> FALSE, status |-> 503, m1 |-> <<>>, m2 |-> <<>>]

\* how many links the fullest provider page holds
ManyLinks == 11

\* what the fetch of provider page i of search_engines can answer
EngineWeb(i) ==
    LET none   == EnginePage(<<>>, <<>>)
        mixed  == EnginePage(<<Url_News, Url_Maps, Url_Long, Url_Short>>, <<Url_Flaky>>)
        second == EnginePage(<<Url_Maps>>, <<Url_Flaky, Url_News>>)
        many   == EnginePage(<<>> \o [k \in 1..ManyLinks |-> IF k = 3 THEN Url_Long ELSE Url_News],
                             <<>>)
    IN  CASE i = 1 -> {EngineRaised, mixed, many}
          [] i = 2 -> {EngineBlocked, none, second, many}
          [] i = 3 -> {none, many}

HtmlResultsPage(m1, m2, m3) ==
    [raised |-> FALSE, status |-> 200, m1 |-> m1, m2 |-> m2, m3 |-> m3]

\* what the fetch of duckduckgo.com/html/ can answer
HtmlWeb ==
    {[raised |-> TRUE, status |-> 0, m1 |-> <<>>, m2 |-> <<>>, m3 |-> <<>>],
     [raised |-> FALSE, status |-> 503, m1 |-> <<>>, m2 |-> <<>>, m3 |-> <<>>],
     HtmlResultsPage(<<>>, <<>>, <<>>),
     HtmlResultsPage(<<<<<<"h","t","t","p","s",":","/","/","d","u","c","k","d","u","c","k","g","o",".","c","o","m","/","a","b","o","u","t">>, <<"A","b","o","u","t">>>>,
                       <<<<"/","l","/","?","u","d","d","g","=","x">>, <<"N","e","x","t"," ","p","a","g","e">>>>,
                       <<Url_News, <<"N","Z"," ","&","a","m","p",";"," ","W","o","r","l","d">>>>,
                       <<Url_Short, <<" ", "x", " ">>>>,
                       <<Url_Maps, <<"M","a","p","s">>>>,
                       <<Url_Long, <<"E","s","s","a","y">>>>>>, <<>>, <<>>),
     HtmlResultsPage(<<>>, <<>>, <<<<Url_Flaky, <<"H","a","r","b","o","u","r">>>>>>)}

Topic(has_text, text, first_url, link_text, link_url) ==
    [is_dict |-> TRUE, has_text |-> has_text, text |-> text, first_url |-> first_url,
     link_text |-> link_text, link_url |-> link_url]

InstantData(abstract, has_heading, heading, abstract_url, topics) ==
    [raised |-> FALSE, status |-> 200, bad_json |-> FALSE,
     data |-> [AbstractText |-> abstract, has_heading |-> has_heading,
               Heading |-> heading, AbstractURL |-> abstract_url,
               RelatedTopics |-> topics]]

\* what the fetch of api.duckduckgo.com can answer; first_url is "str" (what the
\* API sends), "dict" or "absent"
InstantWeb ==
    LET nothing == InstantData(<<>>, FALSE, <<>>, <<>>, <<>>)
        t1 == Topic(TRUE, <<"T","o","p","i","c"," ","o","n","e">>, "str", <<>>, Url_News)
        t2 == Topic(TRUE, <<"T","o","p","i","c"," ","t","w","o">>, "dict", <<"T","w","o">>, Url_Short)
        t3 == Topic(TRUE, <<"T","o","p","i","c"," ","t","h","r","e","e">>, "absent", <<>>, <<>>)
        t4 == Topic(FALSE, <<>>, "absent", <<>>, <<>>)
    IN  {[nothing EXCEPT !.raised = TRUE], [nothing EXCEPT !.status = 503],
         [nothing EXCEPT !.bad_json = TRUE], nothing,
         InstantData(<<"A","n"," ","a","b","s","t","r","a","c","t",".">>, TRUE, <<"H","e","a","d","i","n","g">>, Url_News, <<t2, t3>>),
         InstantData(<<"A","n"," ","a","b","s","t","r","a","c","t",".">>, FALSE, <<>>, <<>>, <<>>),
         InstantData(<<>>, FALSE, <<>>, <<>>, <<t2, t4, t3, t2>>),
         InstantData(<<>>, FALSE, <<>>, <<>>, <<t3, t1>>)}

-----------------------------------------------------------------------------
(* DuckDuckGoSearch.search                                                 *)

\* the bounds of max_results (line 357)
ResultsFloor == 1

ResultsCap == 10

\* search cuts a candidate's content to this window (line 383)
SnippetWindow == 800

\* line 357 with min and max exchanged
ClampSwapped(m) == Max(Min(ResultsFloor, m), ResultsCap)

\* line 357
Clamp(m) == Min(Max(ResultsFloor, m), ResultsCap)

\* line 383 without the assignment's right-hand side
SnippetDropped(content_text) == <<>>

\* line 383 without the "..." of a cut content
SnippetNoMarker(content_text) ==
    IF Len(content_text) > SnippetWindow
    THEN Take(content_text, SnippetWindow)
    ELSE content_text

\* the snippet search gives a with-content candidate (line 383)
Snippet(content_text) ==
    IF Len(content_text) > SnippetWindow
    THEN Take(content_text, SnippetWindow) \o <<".", ".", ".">>
    ELSE content_text

\* whether search fetches a candidate's page (line 375)
HasHttpUrl(r) == r.url # <<>> /\ StartsWith(r.url, <<"h","t","t","p">>)

\* whether the extracted content makes a candidate with-content (line 381)
HasSubstantialContent(content_text) ==
    content_text # <<>> /\ Len(Strip(content_text)) > MinContentLen

\* lines 363-364 without the test: _search_html runs whatever was returned
AfterAlternativeUnconditional(returned) == "html"

\* where search goes once _search_alternative has returned (lines 363-364)
AfterAlternative(returned) == IF returned = <<>> THEN "html" ELSE "extract"

\* where search goes once _search_html has returned (lines 367-368)
AfterHtml(returned) == IF returned = <<>> THEN "instant" ELSE "extract"

\* lines 397-401 with the two lists exchanged
PrioritizedWithoutFirst(with, without, limit) ==
    Take(IF Len(without) < limit
         THEN without \o Take(with, limit - Len(without))
         ELSE without,
         limit)

\* lines 397-401 without the extend: only with-content results are returned
PrioritizedWithOnly(with, without, limit) == Take(with, limit)

\* prioritized_results[:max_results] (lines 397-401), as indexes into results
Prioritized(with, without, limit) ==
    Take(IF Len(with) < limit
         THEN with \o Take(without, limit - Len(with))
         ELSE with,
         limit)

-----------------------------------------------------------------------------
(* WebsiteContentFetcher                                                   *)

\* a line shorter than this, or with fewer distinct characters, is junk
\* (lines 1042, 1046)
MinLineLen == 3

MinDistinctChars == 3

\* a line with a junk pattern is junk only when shorter than this (line 1060)
JunkLineLen == 50

\* junk_patterns (lines 1050-1057)
JunkPatterns ==
    <<<<"c","l","i","c","k"," ","h","e","r","e">>,
      <<"r","e","a","d"," ","m","o","r","e">>,
      <<"l","e","a","r","n"," ","m","o","r","e">>,
      <<"s","i","g","n"," ","u","p">>,
      <<"l","o","g"," ","i","n">>,
      <<"l","o","g","i","n">>,
      <<"s","u","b","s","c","r","i","b","e">>,
      <<"n","e","w","s","l","e","t","t","e","r">>,
      <<"f","o","l","l","o","w"," ","u","s">>,
      <<"s","h","a","r","e"," ","t","h","i","s">>,
      <<"t","w","e","e","t">>,
      <<"f","a","c","e","b","o","o","k">>,
      <<"t","w","i","t","t","e","r">>,
      <<"i","n","s","t","a","g","r","a","m">>,
      <<"l","i","n","k","e","d","i","n">>,
      <<"a","d","v","e","r","t","i","s","e","m","e","n","t">>,
      <<"s","p","o","n","s","o","r","e","d">>,
      <<"c","o","o","k","i","e">>,
      <<"p","r","i","v","a","c","y"," ","p","o","l","i","c","y">>,
      <<"t","e","r","m","s"," ","o","f"," ","s","e","r","v","i","c","e">>,
      <<"c","o","n","t","a","c","t"," ","u","s">>,
      <<"a","b","o","u","t"," ","u","s">>,
      <<"h","o","m","e"," ","p","a","g","e">>,
      <<"m","e","n","u">>,
      <<"n","a","v","i","g","a","t","i","o","n">>,
      <<"s","e","a","r","c","h">>,
      <<"l","o","a","d","i","n","g">>>>

\* lines 1059-1061 without the length test of line 1060
IsLikelyJunkLineAnyLength(line) ==
    LET line_lower == Strip(Lower(line))
    IN  \/ Len(line_lower) < MinLineLen
        \/ Cardinality({line_lower[i] : i \in 1..Len(line_lower)}) < MinDistinctChars
        \/ \E k \in 1..Len(JunkPatterns) : Contains(line_lower, JunkPatterns[k])

\* _is_likely_junk_line (lines 1037-1063)
IsLikelyJunkLine(line) ==
    LET line_lower == Strip(Lower(line))
    IN  \/ Len(line_lower) < MinLineLen
        \/ Cardinality({line_lower[i] : i \in 1..Len(line_lower)}) < MinDistinctChars
        \/ \E k \in 1..Len(JunkPatterns) :
               Contains(line_lower, JunkPatterns[k]) /\ Len(line_lower) < JunkLineLen

\* re.sub(r'<!--.*?-->', '', s, flags=re.DOTALL)
RECURSIVE RemoveComments(_)
RemoveComments(s) ==
    LET open  == <<"<", "!", "-", "-">>
        close == <<"-", "-", ">">>
        At(i, w) == i + Len(w) - 1 <= Len(s) /\ SubSeq(s, i, i + Len(w) - 1) = w
        Match(i) == At(i, open) /\ \E c \in (i + 4)..Len(s) : At(c, close)
    IN  IF ~\E i \in 1..Len(s) : Match(i) THEN s
        ELSE LET i0 == CHOOSE i \in 1..Len(s) : Match(i) /\ \A j \in 1..(i - 1) : ~Match(j)
                 c0 == CHOOSE c \in (i0 + 4)..Len(s) :
                           At(c, close) /\ \A k \in (i0 + 4)..(c - 1) : ~At(k, close)
             IN  SubSeq(s, 1, i0 - 1) \o RemoveComments(SubSeq(s, c0 + 3, Len(s)))

\* re.sub(r'\n\s*\n', '\n\n', s): in a whitespace run with two or more newlines,
\* everything from its first newline to its last becomes two newlines
SquashBlankLines(s) ==
    LET RunStart(i) == i - (CHOOSE d \in 0..(i - 1) :
                                /\ \A j \in (i - d)..i : IsSpace(s[j])
                                /\ (i - d = 1 \/ ~IsSpace(s[i - d - 1])))
        RunEnd(i)   == CHOOSE b \in i..Len(s) : /\ \A j \in i..b : IsSpace(s[j])
                                                /\ (b = Len(s) \/ ~IsSpace(s[b + 1]))
        Newlines(i) == {j \in RunStart(i)..RunEnd(i) : s[j] = "\n"}
        FirstNl(i)  == CHOOSE j \in Newlines(i) : \A k \in Newlines(i) : j <= k
        LastNl(i)   == CHOOSE j \in Newlines(i) : \A k \in Newlines(i) : j >= k
        Kept(i)     == ~(/\ IsSpace(s[i])
                         /\ Cardinality(Newlines(i)) >= 2
                         /\ FirstNl(i) < i /\ i < LastNl(i))
        idx == SelectSeq([i \in 1..Len(s) |-> i], Kept)
    IN  <<>> \o [k \in 1..Len(idx) |-> s[idx[k]]]

\* re.sub(r'[ \t]+', ' ', s)
CollapseBlanks(s) ==
    LET Blank(c) == c \in {" ", "\t"}
        First(i) == ~Blank(s[i]) \/ i = 1 \/ ~Blank(s[i - 1])
        t == [i \in 1..Len(s) |-> IF Blank(s[i]) THEN " " ELSE s[i]]
        idx == SelectSeq([i \in 1..Len(s) |-> i], First)
    IN  <<>> \o [k \in 1..Len(idx) |-> t[idx[k]]]

\* s.split('\n')
SplitLines(s) ==
    LET IsNl(i) == s[i] = "\n"
        nl == SelectSeq([i \in 1..Len(s) |-> i], IsNl)
    IN  <<>> \o [k \in 1..(Len(nl) + 1) |->
            SubSeq(s, IF k = 1 THEN 1 ELSE nl[k - 1] + 1,
                      IF k <= Len(nl) THEN nl[k] - 1 ELSE Len(s))]

\* the lines that survive the filter of lines 1024-1030
CleanLines(lines) ==
    LET Wanted(l) == l # <<>> /\ ~IsLikelyJunkLine(l)
    IN  SelectSeq([k \in 1..Len(lines) |-> Strip(lines[k])], Wanted)

\* _extract_text_from_html (lines 996-1035)
ExtractTextFromHtml(html) ==
    LET no_script  == RemoveBlocks(html, <<"<","s","c","r","i","p","t">>,
                                   <<"<","/","s","c","r","i","p","t",">">>)
        no_style   == RemoveBlocks(no_script, <<"<","s","t","y","l","e">>,
                                   <<"<","/","s","t","y","l","e",">">>)
        text       == Unescape(SubTags(RemoveComments(no_style), <<>>))
        spaced     == Strip(CollapseBlanks(SquashBlankLines(text)))
    IN  Join(<<"\n">>, CleanLines(SplitLines(spaced)))

\* the marker fetch_website_content appends to a truncated text (line 984)
TruncationMarker ==
    <<"\n","\n","[","C","o","n","t","e","n","t"," ","t","r","u","n","c","a","t","e","d"," ","d",
      "u","e"," ","t","o"," ","l","e","n","g","t","h"," ","l","i","m","i","t","]">>

\* the url fetch_website_content fetches (lines 959-960)
WithScheme(u) ==
    IF StartsWith(u, <<"h","t","t","p",":","/","/">>) \/ StartsWith(u, <<"h","t","t","p","s",":","/","/">>)
    THEN u ELSE <<"h","t","t","p","s",":","/","/">> \o u

\* line 970 without the test: every response is taken for HTML
AnyResponse(content_type) == TRUE

\* whether fetch_website_content takes the response for HTML (line 970)
IsHtmlResponse(content_type) == Contains(content_type, <<"t","e","x","t","/","h","t","m","l">>)

\* Optional[str]: None, or a str
None == [none |-> TRUE, text |-> <<>>]

Some(text) == [none |-> FALSE, text |-> text]

\* lines 976-986 without the test of line 976: a blank text is returned as it is
TruncatedKeepsBlank(text_content, limit) ==
    IF Len(text_content) > limit
    THEN Some(Take(text_content, limit) \o TruncationMarker)
    ELSE Some(text_content)

\* lines 976-986 cutting to max_length without the marker of line 984
TruncatedUnmarked(text_content, limit) ==
    IF Strip(text_content) = <<>> THEN None
    ELSE Some(Take(text_content, limit))

\* fetch_website_content, lines 976-986: None for a text that is blank, and a
\* text longer than max_length cut to it, with the marker
Truncated(text_content, limit) ==
    IF Strip(text_content) = <<>> THEN None
    ELSE IF Len(text_content) > limit
    THEN Some(Take(text_content, limit) \o TruncationMarker)
    ELSE Some(text_content)

\* fetch_website_content (lines 946-994) on the outcome o of its one fetch
FetchWebsiteContent(o, limit) ==
    IF FetchError(o) # NoError THEN None
    ELSE IF ~IsHtmlResponse(Lower(o.ctype)) THEN None
    ELSE Truncated(ExtractTextFromHtml(o.text), limit)

\* what fetch_website_content did with the outcome o
FetcherArm(o) ==
    IF FetchError(o) # NoError THEN "failed"
    ELSE IF ~IsHtmlResponse(Lower(o.ctype)) THEN "rejected"
    ELSE "html"

-----------------------------------------------------------------------------
(* create_search_prompt_enhancement                                        *)

\* lines 917-930 without the "Source:" line of lines 923-924
PromptWithoutSource(query_, results_) ==
    IF results_ = <<>> THEN query_
    ELSE LET Entry(i) ==
                 <<"\n", ToString(i)>> \o <<".", " ">> \o results_[i].title \o <<"\n">>
                 \o (IF results_[i].snippet # <<>>
                     THEN <<" ", " ", " ">> \o results_[i].snippet \o <<"\n">>
                     ELSE <<>>)
         IN  <<"\n","\n","-","-","-"," ","W","e","b"," ","S","e","a","r","c","h"," ","R","e","s","u","l","t","s"," ","-","-","-","\n">>
             \o Join(<<>>, <<>> \o [i \in 1..Len(results_) |-> Entry(i)])
             \o <<"\n","-","-","-"," ","E","n","d"," ","S","e","a","r","c","h"," ","R","e","s","u","l","t","s"," ","-","-","-","\n","\n">>
             \o <<"P","l","e","a","s","e"," ","u","s","e"," ","t","h","e"," ","a","b","o","v",
                  "e"," ","w","e","b"," ","s","e","a","r","c","h"," ","r","e","s","u","l","t",
                  "s"," ","t","o"," ","p","r","o","v","i","d","e"," ","a"," ","m","o","r","e",
                  " ","c","o","m","p","r","e","h","e","n","s","i","v","e"," ","a","n","d"," ",
                  "u","p","-","t","o","-","d","a","t","e"," ","r","e","s","p","o","n","s","e",
                  " ","t","o"," ","t","h","e"," ","f","o","l","l","o","w","i","n","g"," ","q",
                  "u","e","r","y",":","\n","\n">>
             \o query_

\* create_search_prompt_enhancement (lines 902-930); str(i) is one symbol
CreateSearchPromptEnhancement(query_, results_) ==
    IF results_ = <<>> THEN query_
    ELSE LET Entry(i) ==
                 <<"\n", ToString(i)>> \o <<".", " ">> \o results_[i].title \o <<"\n">>
                 \o (IF results_[i].snippet # <<>>
                     THEN <<" ", " ", " ">> \o results_[i].snippet \o <<"\n">>
                     ELSE <<>>)
                 \o (IF results_[i].url # <<>>
                     THEN <<" "," "," ","S","o","u","r","c","e",":"," ">> \o results_[i].url \o <<"\n">>
                     ELSE <<>>)
         IN  <<"\n","\n","-","-","-"," ","W","e","b"," ","S","e","a","r","c","h"," ","R","e","s","u","l","t","s"," ","-","-","-","\n">>
             \o Join(<<>>, <<>> \o [i \in 1..Len(results_) |-> Entry(i)])
             \o <<"\n","-","-","-"," ","E","n","d"," ","S","e","a","r","c","h"," ","R","e","s","u","l","t","s"," ","-","-","-","\n","\n">>
             \o <<"P","l","e","a","s","e"," ","u","s","e"," ","t","h","e"," ","a","b","o","v",
                  "e"," ","w","e","b"," ","s","e","a","r","c","h"," ","r","e","s","u","l","t",
                  "s"," ","t","o"," ","p","r","o","v","i","d","e"," ","a"," ","m","o","r","e",
                  " ","c","o","m","p","r","e","h","e","n","s","i","v","e"," ","a","n","d"," ",
                  "u","p","-","t","o","-","d","a","t","e"," ","r","e","s","p","o","n","s","e",
                  " ","t","o"," ","t","h","e"," ","f","o","l","l","o","w","i","n","g"," ","q",
                  "u","e","r","y",":","\n","\n">>
             \o query_

-----------------------------------------------------------------------------
(* The calls.                                                              *)

Calls == {"search", "_search_html", "_search_instant_answer", "extract_content",
          "fetch_website_content", "_clean_text", "_is_likely_junk_line",
          "create_search_prompt_enhancement"}

\* the queries: two that urllib.parse.quote accepts, and one with a lone
\* surrogate, on which it raises UnicodeEncodeError
Queries ==
    {<<"n","z"," ","n","e","w","s">>,
     <<"w","e","a","t","h","e","r"," ","a","u","c","k","l","a","n","d">>,
     <<"n", "z", Surrogate>>}

\* the max_results arguments: below, at and above the bounds of line 357
MaxResultsArgs == {-1, 0, 1, 2, 3, 11}

\* the max_length arguments; DefaultMaxLength is the default of line 946
DefaultMaxLength == 8000

ShortMaxLength == 10

\* the url arguments of fetch_website_content: with and without a scheme
FetcherUrls == {Url_News, <<"a",".","n","z","/","1">>}

\* the texts _clean_text is called on: every text of at most MaxTextLen
\* characters over a letter, a space, a newline and a control character
MaxTextLen == 5

Texts ==
    UNION {{<<>> \o f : f \in [1..n -> {"a", " ", "\n", "\\x00"}]} : n \in 0..MaxTextLen}

\* how many times in a row the caller cleans a text: the first call is on the
\* text, each later call on what the call before returned
MaxCleanCalls == 2

\* the lines _is_likely_junk_line is called on: every line of at most MaxLineLen
\* characters over two letters, a capital and a space; lines with a junk
\* pattern, in lower case and capitalised, of JunkLineLen - 1, JunkLineLen and
\* more characters, bare and with spaces around them; and a long line without a
\* pattern
MaxLineLen == 3

Lines ==
    LET Sentence(n, start) ==
            <<>> \o [i \in 1..n |-> IF i <= Len(start) THEN start[i]
                                     ELSE IF i % 6 = 0 THEN " " ELSE "x"]
        subscribe == <<"s","u","b","s","c","r","i","b","e"," ">>
        Subscribe == <<"S","u","b","s","c","r","i","b","e"," ">>
        lengths   == {JunkLineLen - 1, JunkLineLen, JunkLineLen + 1, 120}
    IN  UNION {{<<>> \o f : f \in [1..n -> {"a", "b", "A", " "}]} : n \in 0..MaxLineLen}
        \cup {Sentence(n, w) : n \in lengths, w \in {subscribe, Subscribe, <<"t","h","e">>}}
        \cup {<<" ", " ">> \o Sentence(n, subscribe) \o <<" ">> : n \in lengths}
        \cup {<<"s","u","b","s","c","r","i","b","e"," ","t","o"," ","o","u","r"," ","n","e","w","s","l","e","t","t","e","r"," ","t","o","d","a","y","!","!">>}

\* the longest search_results create_search_prompt_enhancement is called on
MaxPromptResults == 2

NoData == [title |-> <<>>, content |-> <<>>, metadata |-> [source |-> <<>>],
           source |-> <<>>]

Init ==
    /\ call \in Calls
    /\ pc = CASE call = "_search_html" -> "html"
              [] call = "_search_instant_answer" -> "instant"
              [] OTHER -> "start"
    /\ bs4_available \in BOOLEAN
    /\ query \in CASE call = "search" -> Queries
                   [] call = "create_search_prompt_enhancement" ->
                          {q \in Queries : ~QuoteRaises(q)}
                   [] call = "_search_html" ->
                          {q \in Queries : ~QuoteRaises(q)}
                          \cup {<<"C","u","r","r","e","n","t"," ","f","o","r","e","c","a","s","t"," ","T","a","u","p","o">>}
                   [] call = "_search_instant_answer" ->
                          {q \in Queries : ~QuoteRaises(q)}
                   [] OTHER -> {<<>>}
    /\ max_results \in CASE call = "search" -> MaxResultsArgs
                         [] call \in {"_search_html", "_search_instant_answer"} -> {1, 2}
                         [] OTHER -> {0}
    /\ url \in CASE call = "extract_content" -> {Url_News}
                 [] call = "fetch_website_content" -> FetcherUrls
                 [] OTHER -> {<<>>}
    /\ max_length \in IF call = "fetch_website_content"
                      THEN {0, ShortMaxLength, DefaultMaxLength} ELSE {0}
    /\ requested = max_results
    /\ engine = 0
    /\ result_urls = <<>>
    /\ dest = 0
    /\ results = <<>>
    /\ cand = 0
    /\ results_with_content = <<>>
    /\ results_without_content = <<>>
    /\ ret = <<>>
    /\ ret_data = NoData
    /\ ret_text = None
    /\ ran = <<>>
    /\ destinations = <<>>
    /\ extracted = <<>>
    /\ escaped = FALSE
    /\ fetched = Raised(<<>>)
    /\ arm = "none"
    /\ fetches = <<>>
    /\ text_arg \in IF call = "_clean_text" THEN Texts ELSE {<<>>}
    /\ cleaned = <<>>
    /\ line_arg \in IF call = "_is_likely_junk_line" THEN Lines ELSE {<<>>}
    /\ ret_junk = FALSE
    /\ search_results \in
           IF call = "create_search_prompt_enhancement"
           THEN LET found == {WebSearchResult(<<"N","Z"," ","N","e","w","s">>, Url_News, <<"B","u","d","g","e","t"," ","p","a","s","s","e","d",".">>),
                              WebSearchResult(<<"M","a","p","s">>, <<>>, <<"A"," ","m","a","p",".">>),
                              WebSearchResult(<<"E","s","s","a","y">>, Url_Long, <<>>)}
                IN  UNION {{<<>> \o f : f \in [1..n -> found]} : n \in 0..MaxPromptResults}
           ELSE {<<>>}
    /\ enhancement = <<>>

\* search, lines 357-360 and 418-422: clamp max_results and enter
\* _search_alternative, whose first statement quotes the query three times; if
\* quote raises, nothing in _search_alternative catches it and control is in
\* search's outer handler
SearchStart ==
    /\ call = "search" /\ pc = "start"
    /\ max_results' = Clamp(max_results)
    /\ IF QuoteRaises(query)
       THEN /\ pc' = "except"
            /\ escaped' = TRUE
            /\ engine' = engine
       ELSE /\ pc' = "alt_engine"
            /\ escaped' = escaped
            /\ engine' = 1
    /\ UNCHANGED <<call, bs4_available, query, url, max_length, result_urls, dest,
                   results, cand, results_with_content, results_without_content, ret,
                   ret_data, ret_text, requested, ran, destinations,
                   extracted, fetched, arm>>
    /\ UNCHANGED fetches
    /\ UNCHANGED <<text_arg, cleaned, line_arg, ret_junk, search_results, enhancement>>

\* lines 458-460 without the break: every engine is queried
NextEngineAlways(i, collected, limit) ==
    IF i >= Len(SearchEngines(<<>>))
    THEN [pc |-> "alt_end", engine |-> i]
    ELSE [pc |-> "alt_engine", engine |-> i + 1]

\* where _search_alternative goes when it is through with engine i (lines 458-460)
NextEngine(i, collected, limit) ==
    IF Len(collected) >= limit \/ i >= Len(SearchEngines(<<>>))
    THEN [pc |-> "alt_end", engine |-> i]
    ELSE [pc |-> "alt_engine", engine |-> i + 1]

\* _search_alternative, lines 424-431: fetch the page of the next engine; an
\* exception or a status other than 200 moves on to the engine after it
AltEngine ==
    /\ pc = "alt_engine"
    /\ \E page \in EngineWeb(engine) :
          IF page.raised \/ page.status # 200
          THEN /\ pc' = NextEngine(engine, results, max_results).pc
               /\ engine' = NextEngine(engine, results, max_results).engine
               /\ UNCHANGED <<result_urls, dest>>
          ELSE /\ result_urls' = Take(ExtractResultUrls(page), max_results)
               /\ dest' = 1
               /\ pc' = "alt_dest"
               /\ engine' = engine
    /\ UNCHANGED <<call, bs4_available, query, max_results, url, max_length, results,
                   cand, results_with_content, results_without_content, ret,
                   ret_data, ret_text, requested, ran, destinations,
                   extracted, escaped, fetched, arm>>
    /\ fetches' = Append(fetches, SearchEngines(query)[engine].url)
    /\ UNCHANGED <<text_arg, cleaned, line_arg, ret_junk, search_results, enhancement>>

\* _search_alternative, lines 434-455: fetch and extract the next destination, and
\* keep it as a candidate when its content is substantial.  (The default of
\* extracted_data.get('title', ...) is never used: extract_content always sets
\* 'title'.)
AltDest ==
    /\ pc = "alt_dest"
    /\ dest <= Len(result_urls) /\ Len(results) < max_results
    /\ \E o \in Web(result_urls[dest]) :
       \E extracted_data \in {ExtractContent(o, result_urls[dest], bs4_available)} :
       \E kept \in {Substantial(extracted_data.content)} :
          /\ results' = IF kept
                        THEN Append(results,
                                    WebSearchResult(extracted_data.title,
                                                    result_urls[dest],
                                                    AltSnippet(extracted_data.content)))
                        ELSE results
          /\ destinations' = Append(destinations,
                                    [url |-> result_urls[dest],
                                     failed |-> FetchError(o) # NoError,
                                     kept |-> kept])
    /\ dest' = dest + 1
    /\ UNCHANGED <<call, pc, bs4_available, query, max_results, url, max_length,
                   engine, result_urls, cand, results_with_content,
                   results_without_content, ret, ret_data, ret_text,
                   requested, ran, extracted, escaped, fetched, arm>>
    /\ fetches' = Append(fetches, result_urls[dest])
    /\ UNCHANGED <<text_arg, cleaned, line_arg, ret_junk, search_results, enhancement>>

\* _search_alternative, lines 434-436 and 458-459: the destinations of this
\* engine are exhausted or enough candidates are collected
AltEngineDone ==
    /\ pc = "alt_dest"
    /\ ~(dest <= Len(result_urls) /\ Len(results) < max_results)
    /\ pc' = NextEngine(engine, results, max_results).pc
    /\ engine' = NextEngine(engine, results, max_results).engine
    /\ UNCHANGED <<call, bs4_available, query, max_results, url, max_length,
                   result_urls, dest, results, cand, results_with_content,
                   results_without_content, ret, ret_data, ret_text,
                   requested, ran, destinations, extracted, escaped, fetched, arm>>
    /\ UNCHANGED fetches
    /\ UNCHANGED <<text_arg, cleaned, line_arg, ret_junk, search_results, enhancement>>

\* _search_alternative, lines 462-470, and search, lines 360-364
AltEnd ==
    /\ pc = "alt_end"
    /\ LET returned == IF NeedsBasicResult(results, max_results)
                       THEN Append(results, BasicResult(query))
                       ELSE results
       IN  /\ results' = returned
           /\ ran' = Append(ran, [backend |-> "alternative", returned |-> returned])
           /\ pc' = AfterAlternative(returned)
    /\ cand' = 1
    /\ UNCHANGED <<call, bs4_available, query, max_results, url, max_length, engine,
                   result_urls, dest, results_with_content, results_without_content,
                   ret, ret_data, ret_text, requested, destinations,
                   extracted, escaped, fetched, arm>>
    /\ UNCHANGED fetches
    /\ UNCHANGED <<text_arg, cleaned, line_arg, ret_junk, search_results, enhancement>>

\* _search_html (lines 611-725), called by search (line 364) or on its own
HtmlSearch ==
    /\ pc = "html"
    /\ \E o \in HtmlWeb :
          LET returned == SearchHtml(o, query, max_results)
          IN  /\ results' = returned
              /\ ran' = Append(ran, [backend |-> "html", returned |-> returned])
              /\ pc' = IF call = "search" THEN AfterHtml(returned) ELSE "done"
              /\ ret' = IF call = "search" THEN ret ELSE returned
              /\ fetched' = o
    /\ cand' = 1
    /\ UNCHANGED <<call, bs4_available, query, max_results, url, max_length, engine,
                   result_urls, dest, results_with_content, results_without_content,
                   ret_data, ret_text, requested, destinations, extracted, escaped,
                   arm>>
    /\ fetches' = Append(fetches, <<"h","t","t","p","s",":","/","/","d","u","c","k","d","u","c","k","g","o",".","c","o","m","/","h","t","m","l","/">>)
    /\ UNCHANGED <<text_arg, cleaned, line_arg, ret_junk, search_results, enhancement>>

\* _search_instant_answer (lines 567-609), called by search (line 368) or on
\* its own
InstantSearch ==
    /\ pc = "instant"
    /\ \E o \in InstantWeb :
          LET returned == SearchInstantAnswer(o, query, max_results)
          IN  /\ results' = returned
              /\ ran' = Append(ran, [backend |-> "instant", returned |-> returned])
              /\ ret' = IF call = "search" THEN ret ELSE returned
              /\ fetched' = o
    /\ pc' = IF call = "search" THEN "extract" ELSE "done"
    /\ cand' = 1
    /\ UNCHANGED <<call, bs4_available, query, max_results, url, max_length, engine,
                   result_urls, dest, results_with_content, results_without_content,
                   ret_data, ret_text, requested, destinations, extracted, escaped,
                   arm>>
    /\ fetches' = Append(fetches, <<"h","t","t","p","s",":","/","/","a","p","i",".","d","u","c","k","d","u","c","k","g","o",".","c","o","m","/">>)
    /\ UNCHANGED <<text_arg, cleaned, line_arg, ret_junk, search_results, enhancement>>

\* search, lines 374-394: one turn of the loop over the candidates
ExtractCandidate ==
    /\ pc = "extract"
    /\ cand <= Len(results)
    /\ IF HasHttpUrl(results[cand])
       THEN \E o \in Web(results[cand].url) :
            \E extracted_data \in {ExtractContent(o, results[cand].url, bs4_available)} :
            \E content_text \in {extracted_data.content} :
               /\ IF HasSubstantialContent(content_text)
                  THEN /\ results' = [results EXCEPT
                                         ![cand].snippet = Snippet(content_text)]
                       /\ results_with_content' = Append(results_with_content, cand)
                       /\ UNCHANGED results_without_content
                  ELSE /\ results_without_content' =
                              Append(results_without_content, cand)
                       /\ UNCHANGED <<results, results_with_content>>
               /\ extracted' = Append(extracted,
                                      [attempted |-> TRUE,
                                       failed |-> FetchError(o) # NoError,
                                       content |-> content_text])
       ELSE /\ results_without_content' = Append(results_without_content, cand)
            /\ extracted' = Append(extracted,
                                   [attempted |-> FALSE, failed |-> FALSE,
                                    content |-> <<>>])
            /\ UNCHANGED <<results, results_with_content>>
    /\ cand' = cand + 1
    /\ UNCHANGED <<call, pc, bs4_available, query, max_results, url, max_length,
                   engine, result_urls, dest, ret, ret_data, ret_text, requested, ran,
                   destinations, escaped, fetched, arm>>
    /\ fetches' = IF HasHttpUrl(results[cand])
                  THEN Append(fetches, results[cand].url) ELSE fetches
    /\ UNCHANGED <<text_arg, cleaned, line_arg, ret_junk, search_results, enhancement>>

\* search, lines 397-401
SearchReturn ==
    /\ pc = "extract"
    /\ cand > Len(results)
    /\ LET prioritized_results ==
               Prioritized(results_with_content, results_without_content, max_results)
       IN  ret' = [k \in 1..Len(prioritized_results) |-> results[prioritized_results[k]]]
    /\ pc' = "done"
    /\ UNCHANGED <<call, bs4_available, query, max_results, url, max_length, engine,
                   result_urls, dest, results, cand, results_with_content,
                   results_without_content, ret_data, ret_text, requested, ran,
                   destinations, extracted, escaped, fetched, arm>>
    /\ UNCHANGED fetches
    /\ UNCHANGED <<text_arg, cleaned, line_arg, ret_junk, search_results, enhancement>>

\* lines 403-408 with a handler that re-raises
SearchExceptReraises ==
    /\ pc = "except"
    /\ pc' = "raised"
    /\ UNCHANGED <<call, bs4_available, query, max_results, url, max_length, engine,
                   result_urls, dest, results, cand, results_with_content,
                   results_without_content, ret, ret_data, ret_text, requested, ran,
                   destinations, extracted, escaped, fetched, arm>>
    /\ UNCHANGED fetches
    /\ UNCHANGED <<text_arg, cleaned, line_arg, ret_junk, search_results, enhancement>>

\* search, lines 403-408: the outer handler
SearchExcept ==
    /\ pc = "except"
    /\ ret' = <<>>
    /\ pc' = "done"
    /\ UNCHANGED <<call, bs4_available, query, max_results, url, max_length, engine,
                   result_urls, dest, results, cand, results_with_content,
                   results_without_content, ret_data, ret_text, requested, ran,
                   destinations, extracted, escaped, fetched, arm>>
    /\ UNCHANGED fetches
    /\ UNCHANGED <<text_arg, cleaned, line_arg, ret_junk, search_results, enhancement>>

\* WebContentExtractor.extract_content (lines 62-103), called on its own
ExtractCall ==
    /\ call = "extract_content" /\ pc = "start"
    /\ \E o \in AnyOutcome(url) :
          /\ ret_data' = ExtractContent(o, url, bs4_available)
          /\ arm' = ArmOf(o)
          /\ fetched' = o
    /\ pc' = "done"
    /\ UNCHANGED <<call, bs4_available, query, max_results, url, max_length, engine,
                   result_urls, dest, results, cand, results_with_content,
                   results_without_content, ret, ret_text, requested, ran,
                   destinations, extracted, escaped>>
    /\ fetches' = Append(fetches, url)
    /\ UNCHANGED <<text_arg, cleaned, line_arg, ret_junk, search_results, enhancement>>

\* WebsiteContentFetcher.fetch_website_content (lines 946-994)
FetchCall ==
    /\ call = "fetch_website_content" /\ pc = "start"
    /\ \E o \in AnyOutcome(WithScheme(url)) :
          /\ ret_text' = FetchWebsiteContent(o, max_length)
          /\ arm' = FetcherArm(o)
          /\ fetched' = o
    /\ pc' = "done"
    /\ UNCHANGED <<call, bs4_available, query, max_results, url, max_length, engine,
                   result_urls, dest, results, cand, results_with_content,
                   results_without_content, ret, ret_data, requested, ran,
                   destinations, extracted, escaped>>
    /\ fetches' = Append(fetches, WithScheme(url))
    /\ UNCHANGED <<text_arg, cleaned, line_arg, ret_junk, search_results, enhancement>>

\* WebContentExtractor._clean_text (lines 312-324), called on its argument
CleanCall ==
    /\ call = "_clean_text" /\ pc = "start"
    /\ cleaned' = Append(cleaned,
                         CleanText(IF cleaned = <<>> THEN text_arg
                                   ELSE cleaned[Len(cleaned)]))
    /\ pc' = IF Len(cleaned) + 1 >= MaxCleanCalls THEN "done" ELSE "start"
    /\ UNCHANGED <<call, bs4_available, query, max_results, url, max_length, engine,
                   result_urls, dest, results, cand, results_with_content,
                   results_without_content, ret, ret_data, ret_text, requested, ran,
                   destinations, extracted, escaped, fetched, arm, fetches>>
    /\ UNCHANGED <<text_arg, line_arg, ret_junk, search_results, enhancement>>

\* WebsiteContentFetcher._is_likely_junk_line (lines 1037-1063), called on its
\* argument
JunkCall ==
    /\ call = "_is_likely_junk_line" /\ pc = "start"
    /\ ret_junk' = IsLikelyJunkLine(line_arg)
    /\ pc' = "done"
    /\ UNCHANGED <<call, bs4_available, query, max_results, url, max_length, engine,
                   result_urls, dest, results, cand, results_with_content,
                   results_without_content, ret, ret_data, ret_text, requested, ran,
                   destinations, extracted, escaped, fetched, arm, fetches>>
    /\ UNCHANGED <<text_arg, cleaned, line_arg, search_results, enhancement>>

\* create_search_prompt_enhancement (lines 902-930), called on its arguments
PromptCall ==
    /\ call = "create_search_prompt_enhancement" /\ pc = "start"
    /\ enhancement' = CreateSearchPromptEnhancement(query, search_results)
    /\ pc' = "done"
    /\ UNCHANGED <<call, bs4_available, query, max_results, url, max_length, engine,
                   result_urls, dest, results, cand, results_with_content,
                   results_without_content, ret, ret_data, ret_text, requested, ran,
                   destinations, extracted, escaped, fetched, arm, fetches>>
    /\ UNCHANGED <<text_arg, cleaned, line_arg, ret_junk, search_results>>

Next ==
    \/ SearchStart
    \/ AltEngine
    \/ AltDest
    \/ AltEngineDone
    \/ AltEnd
    \/ HtmlSearch
    \/ InstantSearch
    \/ ExtractCandidate
    \/ SearchReturn
    \/ SearchExcept
    \/ ExtractCall
    \/ FetchCall
    \/ CleanCall
    \/ JunkCall
    \/ PromptCall

Spec == Init /\ [][Next]_vars

-----------------------------------------------------------------------------
(* Properties of search.  Candidate i of the extraction loop is results[i];*)
(* extracted[i] is what extract_content gave the loop for it.              *)

\* C1: for every max_results (0, negative values and values above 10 included)
\* and every query, the list search returns has at most
\* min(max(1, max_results), 10) entries, hence between 0 and 10.
C1_ResultCountWithinClamp ==
    (call = "search" /\ pc = "done") =>
        /\ Len(ret) <= Min(Max(1, requested), 10)
        /\ 0 <= Len(ret) /\ Len(ret) <= 10

\* C1, reached: the caller asked for 11 results and search returned 10
C1_CappedAtTen ==
    call = "search" /\ pc = "done" /\ requested = 11 /\ Len(ret) = 10

\* C2: search never raises; when a step raised an exception that nothing caught
\* locally, search ends by returning the empty list.
C2_SearchNeverRaises ==
    call = "search" =>
        /\ pc # "raised"
        /\ escaped => pc \in {"except", "done"}
        /\ (escaped /\ pc = "done") => ret = <<>>

\* C2, reached: quote raised on the query and search returned the empty list
C2_EscapedAndReturnedEmpty ==
    call = "search" /\ pc = "done" /\ escaped /\ QuoteRaises(query) /\ ret = <<>>

\* C3 as the specification states it: the backends run in the order category
\* shortcut, multi-engine scrape, direct HTML scrape, instant-answer API; every
\* backend that ran before the last one returned no candidate, and the candidate
\* list is the one the last backend returned.
C3_CategoryShortcutFirst ==
    call = "search" =>
        LET order == <<"category", "alternative", "html", "instant">>
        IN  /\ Len(ran) <= Len(order)
            /\ \A i \in 1..Len(ran) : ran[i].backend = order[i]
            /\ \A i \in 1..(Len(ran) - 1) : ran[i].returned = <<>>
            /\ (pc = "extract" /\ cand = 1) =>
                   (ran # <<>> /\ results = ran[Len(ran)].returned)

\* C3, amended: search has no category shortcut.  The backends run in the order
\* multi-engine scrape, direct HTML scrape, instant-answer API; every backend
\* that ran before the last one returned no candidate (once a backend has
\* returned a candidate no later backend runs), and the candidate list is exactly
\* the one the last backend returned (lists are never merged).
C3_FallbackChain ==
    call = "search" =>
        LET order == <<"alternative", "html", "instant">>
        IN  /\ Len(ran) <= Len(order)
            /\ \A i \in 1..Len(ran) : ran[i].backend = order[i]
            /\ \A i \in 1..(Len(ran) - 1) : ran[i].returned = <<>>
            /\ (pc = "extract" /\ cand = 1) =>
                   (ran # <<>> /\ results = ran[Len(ran)].returned)

\* C3, reached: the multi-engine scrape returned candidates, no other backend
\* ran, and the extraction loop starts on its list
C3_FirstBackendUsed ==
    /\ call = "search" /\ pc = "extract" /\ cand = 1
    /\ Len(ran) = 1 /\ ran[1].backend = "alternative"
    /\ Len(ran[1].returned) >= 2 /\ results = ran[1].returned

\* C4: the list search returns is all with-content candidates in candidate
\* order, then without-content candidates in candidate order filling the
\* remaining slots, the whole cut to the clamped max_results; no without-content
\* result precedes a with-content result.
C4_WithContentFirst ==
    (call = "search" /\ pc = "done" /\ ~escaped) =>
        LET with    == results_with_content
            without == results_without_content
            limit   == Min(Max(1, requested), 10)
            order   == SubSeq(with \o without, 1, Min(limit, Len(with) + Len(without)))
            InCandidateOrder(s) == \A i, j \in 1..Len(s) : i < j => s[i] < s[j]
        IN  /\ InCandidateOrder(with) /\ InCandidateOrder(without)
            /\ {with[i] : i \in 1..Len(with)} \cup {without[i] : i \in 1..Len(without)}
                   = 1..Len(results)
            /\ Len(with) + Len(without) = Len(results)
            /\ Len(ret) = Len(order)
            /\ \A k \in 1..Len(ret) : ret[k] = results[order[k]]

\* C4, reached: search returned a without-content candidate after a with-content
\* candidate that came later in candidate order
C4_Reordered ==
    /\ call = "search" /\ pc = "done"
    /\ Len(ret) > Len(results_with_content)
    /\ \E i \in 1..Len(results_without_content) :
       \E j \in 1..Len(results_with_content) :
           results_without_content[i] < results_with_content[j]

\* C5: every result in the list search returns either has a non-empty snippet
\* obtained from content extraction (the extracted content, or a cut of it with
\* a three-character marker), or is a without-content candidate that is present
\* only because there were fewer with-content candidates than the clamped
\* max_results.
C5_SnippetOrFill ==
    (call = "search" /\ pc = "done" /\ ~escaped) =>
        LET with    == results_with_content
            without == results_without_content
            FromExtraction(snippet, content) ==
                \/ snippet = content
                \/ /\ Len(snippet) >= 3 /\ Len(snippet) - 3 < Len(content)
                   /\ SubSeq(snippet, 1, Len(snippet) - 3)
                          = SubSeq(content, 1, Len(snippet) - 3)
        IN  \A k \in 1..Len(ret) :
                \/ \E j \in 1..Len(with) :
                       /\ ret[k] = results[with[j]]
                       /\ ret[k].snippet # <<>>
                       /\ extracted[with[j]].attempted
                       /\ FromExtraction(ret[k].snippet, extracted[with[j]].content)
                \/ /\ \E j \in 1..Len(without) : ret[k] = results[without[j]]
                   /\ Len(with) < Min(Max(1, requested), 10)

\* C5, reached: search returned a with-content result whose snippet is a cut of
\* the extracted content, and a without-content result filling a free slot
C5_BothKindsReturned ==
    /\ call = "search" /\ pc = "done"
    /\ Len(results_with_content) >= 1
    /\ Len(ret) > Len(results_with_content)
    /\ \E j \in 1..Len(results_with_content) :
           Len(extracted[results_with_content[j]].content) > 800

\* C6: when the fetch of a candidate's URL fails (timeout, connection error or
\* non-success HTTP status), search classifies the candidate as without-content
\* and does not set its snippet from the extractor's output; and a multi-engine
\* destination whose fetch failed does not become a candidate.
C6_FailedFetchDegradesToEmpty ==
    call = "search" =>
        /\ \A k \in 1..Len(extracted) :
               extracted[k].failed =>
                   /\ \E j \in 1..Len(results_without_content) :
                          results_without_content[j] = k
                   /\ \A j \in 1..Len(results_with_content) :
                          results_with_content[j] # k
                   /\ results[k].snippet # extracted[k].content
        /\ \A d \in 1..Len(destinations) :
               destinations[d].failed => ~destinations[d].kept

\* C7 as the specification states it: for a with-content candidate whose
\* extracted content is longer than the snippet window, the snippet is the
\* content up to and including the last '.' that lies after the midpoint of the
\* window when there is one, and otherwise the window followed by "...".
C7_CutAtSentenceEnd ==
    call = "search" =>
        \A j \in 1..Len(results_with_content) :
            LET k       == results_with_content[j]
                content == extracted[k].content
                periods == {i \in 401..800 : content[i] = "."}
                last    == CHOOSE i \in periods : \A h \in periods : h <= i
            IN  Len(content) > 800 =>
                    results[k].snippet =
                        IF periods # {} THEN SubSeq(content, 1, last)
                        ELSE SubSeq(content, 1, 800) \o <<".", ".", ".">>

\* C7, amended: for a with-content candidate whose extracted content is longer
\* than 800 characters, the snippet search sets is the first 800 characters of
\* the content followed by "...", wherever the sentences of the content end; a
\* content of at most 800 characters is the snippet as it is.
C7_HardCutWithEllipsis ==
    call = "search" =>
        \A j \in 1..Len(results_with_content) :
            LET k       == results_with_content[j]
                content == extracted[k].content
            IN  results[k].snippet =
                    IF Len(content) > 800
                    THEN SubSeq(content, 1, 800) \o <<".", ".", ".">>
                    ELSE content

\* C7, reached: a with-content candidate whose content is longer than the
\* window and has a '.' in the second half of the window
C7_LongContentWithSentenceEnd ==
    /\ call = "search"
    /\ \E j \in 1..Len(results_with_content) :
           LET content == extracted[results_with_content[j]].content
           IN  /\ Len(content) > 800
               /\ \E i \in 401..800 : content[i] = "."

-----------------------------------------------------------------------------
(* Properties of extract_content and fetch_website_content.                *)

\* C8 as the specification states it: on any fetch failure or parse failure
\* extract_content returns the four fields title, content, metadata and source,
\* with a content that states the failure and an 'error' entry in metadata.
C8_ContentStatesEveryFailure ==
    (/\ call = "extract_content" /\ pc = "done"
     /\ (arm = "failed" \/ (arm = "json" /\ fetched.json = JInvalid))) =>
        /\ DOMAIN ret_data = {"title", "content", "metadata", "source"}
        /\ StartsWith(ret_data.content, <<"F","a","i","l","e","d"," ","t","o"," ","e","x","t","r","a","c","t"," ","c","o","n","t","e","n","t">>)
        /\ "error" \in DOMAIN ret_data.metadata

\* C8, amended: extract_content never raises and always returns the four fields
\* title, content, metadata and source.  On a fetch failure (an exception of
\* the request, or a non-success status) content is "Failed to extract content
\* from <url>: <cause>" and metadata['error'] is the cause.  On a JSON body that
\* does not parse, content is the first 1000 characters of the body, not a
\* statement of the failure, and metadata['error'] is 'invalid_json'.
C8_FailureReported ==
    call = "extract_content" =>
        /\ pc \in {"start", "done"}
        /\ pc = "done" =>
            /\ DOMAIN ret_data = {"title", "content", "metadata", "source"}
            /\ arm = "failed" =>
                /\ ret_data.content =
                       <<"F","a","i","l","e","d"," ","t","o"," ","e","x","t","r","a","c","t"," ","c","o","n","t","e","n","t"," ","f","r","o","m"," ">>
                       \o url \o <<":", " ">> \o FetchError(fetched)
                /\ "error" \in DOMAIN ret_data.metadata
                /\ ret_data.metadata.error = FetchError(fetched)
            /\ (arm = "json" /\ fetched.json = JInvalid) =>
                /\ ret_data.content = SubSeq(fetched.text, 1, Min(1000, Len(fetched.text)))
                /\ "error" \in DOMAIN ret_data.metadata
                /\ ret_data.metadata.error = <<"i","n","v","a","l","i","d","_","j","s","o","n">>

\* C8, reached: the request failed and extract_content returned the report
C8_FetchFailed ==
    /\ call = "extract_content" /\ pc = "done" /\ arm = "failed"
    /\ "error" \in DOMAIN ret_data.metadata

\* C9: for every successfully fetched response extract_content runs exactly one
\* of the four strategies, chosen from the declared content type only: JSON for
\* a JSON type, XML for an XML type, plain text for any other non-HTML text
\* type, HTML for an HTML type or when no other arm applies; a response
\* declared as HTML is never handled by the JSON, XML or plain-text arm.
C9_DispatchByDeclaredType ==
    (call = "extract_content" /\ pc = "done" /\ FetchError(fetched) = NoError) =>
        LET content_type == Lower(fetched.ctype)
            html  == Contains(content_type, <<"h","t","m","l">>)
            json  == Contains(content_type, <<"j","s","o","n">>)
            xml   == Contains(content_type, <<"x","m","l">>)
            text  == Contains(content_type, <<"t","e","x","t","/">>)
        IN  /\ arm \in {"json", "xml", "plain", "html"}
            /\ html => arm = "html"
            /\ (~html /\ json) => arm = "json"
            /\ (~html /\ ~json /\ xml) => arm = "xml"
            /\ (~html /\ ~json /\ ~xml /\ text) => arm = "plain"
            /\ (~html /\ ~json /\ ~xml /\ ~text) => arm = "html"

\* C10 as the specification states it: fetch_website_content on a response of
\* content type application/json returns the text JSON extraction gives for the
\* body.
C10_JsonRoutedToJsonExtraction ==
    (/\ call = "fetch_website_content" /\ pc = "done"
     /\ FetchError(fetched) = NoError
     /\ fetched.ctype = <<"a","p","p","l","i","c","a","t","i","o","n","/","j","s","o","n">>) =>
        /\ ~ret_text.none
        /\ ret_text.text
               = ExtractJsonContent(fetched.text, fetched.json, fetched.final_url).content

\* C10, amended: fetch_website_content on a successfully fetched response whose
\* content type does not contain "text/html" (application/json among them)
\* returns None: the body goes through no extraction at all, neither JSON
\* extraction nor HTML tag stripping.
C10_NonHtmlRejected ==
    (/\ call = "fetch_website_content" /\ pc = "done"
     /\ FetchError(fetched) = NoError
     /\ ~Contains(Lower(fetched.ctype), <<"t","e","x","t","/","h","t","m","l">>)) =>
        /\ ret_text = None
        /\ arm = "rejected"

\* C10, reached: the response was application/json with a body that parses, and
\* fetch_website_content returned None
C10_JsonRejected ==
    /\ call = "fetch_website_content" /\ pc = "done"
    /\ FetchError(fetched) = NoError
    /\ fetched.ctype = <<"a","p","p","l","i","c","a","t","i","o","n","/","j","s","o","n">>
    /\ fetched.json # JInvalid
    /\ ret_text = None

\* C11: fetch_website_content never raises.  When the request raises, the status
\* is one raise_for_status rejects (4xx, 5xx), the content type lacks
\* "text/html" or the page has no readable text, it returns None; in every other
\* case it returns a non-empty string.
C11_NoneOrNonEmptyText ==
    call = "fetch_website_content" =>
        /\ pc \in {"start", "done"}
        /\ pc = "done" =>
               IF \/ fetched.raised
                  \/ RaisesForStatus(fetched)
                  \/ ~Contains(Lower(fetched.ctype), <<"t","e","x","t","/","h","t","m","l">>)
                  \/ Strip(ExtractTextFromHtml(fetched.text)) = <<>>
               THEN ret_text = None
               ELSE ~ret_text.none /\ ret_text.text # <<>>

\* C11, reached: an HTML page without readable text gave None
C11_BlankPageGaveNone ==
    /\ call = "fetch_website_content" /\ pc = "done"
    /\ arm = "html" /\ fetched.text = <<>>
    /\ ret_text = None

-----------------------------------------------------------------------------
(* Properties of _clean_text.  cleaned[1] is what it returned for text_arg, *)
(* cleaned[2] what it returned for cleaned[1].                             *)

\* C12: _clean_text is idempotent: for every text, texts that mix spaces with
\* control characters included, cleaning the cleaned text gives the cleaned text.
C12_CleanIdempotent ==
    (call = "_clean_text" /\ Len(cleaned) >= 2) => cleaned[2] = cleaned[1]

\* C13: for every text, what _clean_text returns has no leading and no trailing
\* whitespace, none of the control characters it strips, and no two consecutive
\* whitespace characters; for the empty text it returns the empty text.
C13_CleanOutputNormalised ==
    (call = "_clean_text" /\ Len(cleaned) >= 1) =>
        LET out == cleaned[1]
        IN  /\ out # <<>> => (~IsSpace(out[1]) /\ ~IsSpace(out[Len(out)]))
            /\ \A i \in 1..Len(out) : out[i] \notin ControlChars
            /\ \A i \in 1..(Len(out) - 1) : ~(IsSpace(out[i]) /\ IsSpace(out[i + 1]))
            /\ text_arg = <<>> => out = <<>>

-----------------------------------------------------------------------------
(* Properties of _is_likely_junk_line.                                     *)

\* C14 as the specification states it: the line is junk exactly when the line is
\* shorter than 3 characters, or has fewer than 3 distinct characters, or
\* contains one of the fixed phrases while being shorter than 50 characters; a
\* line of 50 or more characters with at least 3 distinct characters is never
\* junk.
C14_JunkByLineAsGiven ==
    (call = "_is_likely_junk_line" /\ pc = "done") =>
        LET distinct == Cardinality({line_arg[i] : i \in 1..Len(line_arg)})
        IN  /\ ret_junk <=>
                   \/ Len(line_arg) < 3
                   \/ distinct < 3
                   \/ /\ \E k \in 1..Len(JunkPatterns) : Contains(line_arg, JunkPatterns[k])
                      /\ Len(line_arg) < 50
            /\ (Len(line_arg) >= 50 /\ distinct >= 3) => ~ret_junk

\* C14, amended: the three tests are made on the line in lower case with the
\* whitespace around it removed.  The line is junk exactly when that form is
\* shorter than 3 characters, or has fewer than 3 distinct characters, or contains
\* one of the fixed phrases while being shorter than 50 characters; a line whose
\* form has 50 or more characters and at least 3 distinct characters is never
\* junk.
C14_JunkByNormalisedLine ==
    (call = "_is_likely_junk_line" /\ pc = "done") =>
        LET form     == Strip(Lower(line_arg))
            distinct == Cardinality({form[i] : i \in 1..Len(form)})
        IN  /\ ret_junk <=>
                   \/ Len(form) < 3
                   \/ distinct < 3
                   \/ /\ \E k \in 1..Len(JunkPatterns) : Contains(form, JunkPatterns[k])
                      /\ Len(form) < 50
            /\ (Len(form) >= 50 /\ distinct >= 3) => ~ret_junk

\* C14, reached: a line of 50 characters that contains a phrase is not junk
C14_LongLineWithPhraseKept ==
    /\ call = "_is_likely_junk_line" /\ pc = "done"
    /\ Len(line_arg) = 50
    /\ Contains(line_arg, <<"s","u","b","s","c","r","i","b","e">>)
    /\ ~ret_junk

-----------------------------------------------------------------------------
(* Properties of create_search_prompt_enhancement.                         *)

\* C15: create_search_prompt_enhancement returns query unchanged when
\* search_results is empty; otherwise what it returns is the opening delimiter
\* '--- Web Search Results ---', then one numbered entry per result in result
\* order carrying that result's title, snippet and source URL, then the closing
\* delimiter '--- End Search Results ---', then the instruction sentence, and it
\* ends with the original query.
C15_PromptLayout ==
    (call = "create_search_prompt_enhancement" /\ pc = "done") =>
        IF search_results = <<>> THEN enhancement = query
        ELSE LET open   == <<"\n","\n","-","-","-"," ","W","e","b"," ","S","e","a","r","c","h"," ","R","e","s","u","l","t","s"," ","-","-","-","\n">>
                 tail   == <<"\n","-","-","-"," ","E","n","d"," ","S","e","a","r","c","h"," ","R","e","s","u","l","t","s"," ","-","-","-","\n","\n">>
                           \o <<"P","l","e","a","s","e"," ","u","s","e"," ","t","h","e"," ","a",
                             "b","o","v","e"," ","w","e","b"," ","s","e","a","r","c","h"," ",
                             "r","e","s","u","l","t","s"," ","t","o"," ","p","r","o","v","i",
                             "d","e"," ","a"," ","m","o","r","e"," ","c","o","m","p","r","e",
                             "h","e","n","s","i","v","e"," ","a","n","d"," ","u","p","-","t",
                             "o","-","d","a","t","e"," ","r","e","s","p","o","n","s","e"," ",
                             "t","o"," ","t","h","e"," ","f","o","l","l","o","w","i","n","g",
                             " ","q","u","e","r","y",":","\n","\n">>
                           \o query
                 number == <<"1", "2", "3", "4", "5", "6", "7", "8", "9">>
                 n      == Len(search_results)
                 body   == SubSeq(enhancement, Len(open) + 1, Len(enhancement) - Len(tail))
                 Header(i) == <<"\n", number[i], ".", " ">> \o search_results[i].title
                              \o <<"\n">>
                 starts == {p \in 1..Len(body) : \E i \in 1..n :
                               SubSeq(body, p, Min(Len(body), p + Len(Header(i)) - 1))
                                   = Header(i)}
                 Carries(e, i) == /\ StartsWith(e, Header(i))
                                  /\ Contains(e, search_results[i].snippet)
                                  /\ Contains(e, search_results[i].url)
             IN  /\ StartsWith(enhancement, open)
                 /\ Len(enhancement) >= Len(open) + Len(tail)
                 /\ SubSeq(enhancement, Len(enhancement) - Len(tail) + 1, Len(enhancement))
                        = tail
                 /\ \E cut \in [1..n -> starts] :
                        /\ cut[1] = 1
                        /\ \A i \in 1..(n - 1) : cut[i] < cut[i + 1]
                        /\ \A i \in 1..n :
                               Carries(SubSeq(body, cut[i],
                                              IF i < n THEN cut[i + 1] - 1 ELSE Len(body)),
                                       i)

\* C15, reached: two results were formatted into the prompt
C15_TwoResultsFormatted ==
    /\ call = "create_search_prompt_enhancement" /\ pc = "done"
    /\ Len(search_results) = 2
    /\ search_results[1] # search_results[2]
    /\ search_results[2].url # <<>>
    /\ enhancement # query

-----------------------------------------------------------------------------
(* Properties of the fetches of search.                                    *)

\* C16: no candidate on which content extraction is attempted has a URL that
\* belongs to a search engine used internally (Startpage, Bing, Yahoo,
\* DuckDuckGo) or is a search/result page; such URLs are removed from every
\* backend's candidate list before any content fetch, the candidates a backend
\* synthesizes itself included.
C16_NoSearchPageExtracted ==
    call = "search" =>
        LET engines == <<<<"s","t","a","r","t","p","a","g","e",".","c","o","m">>,
                         <<"b","i","n","g",".","c","o","m">>,
                         <<"y","a","h","o","o",".","c","o","m">>,
                         <<"d","u","c","k","d","u","c","k","g","o",".","c","o","m">>,
                         <<"g","o","o","g","l","e",".","c","o","m","/","s","e","a","r","c","h">>>>
            IsSearchPage(u) == \E k \in 1..Len(engines) : Contains(u, engines[k])
        IN  /\ \A d \in 1..Len(destinations) : ~IsSearchPage(destinations[d].url)
            /\ \A k \in 1..Len(extracted) :
                   extracted[k].attempted => ~IsSearchPage(results[k].url)

\* C17: during one call of search each fetch is attempted exactly once: no URL,
\* of a provider page or of a candidate page, is requested a second time,
\* whether its first fetch succeeded or failed.
C17_NoUrlRequestedTwice ==
    call = "search" =>
        \A i, j \in 1..Len(fetches) : i # j => fetches[i] # fetches[j]

-----------------------------------------------------------------------------
(* Properties of search on particular queries.                             *)

\* C18 as the specification states it: for the weather query "weather auckland"
\* with max_results = 2, search activates the category shortcut before any other
\* backend: the candidates are exactly the 2 weather-site template URLs built
\* from the subject token, both are attempted for content, and the result list
\* has at most max_results entries.
C18_WeatherShortcutInSearch ==
    (/\ call = "search" /\ pc = "done" /\ ~escaped
     /\ query = <<"w","e","a","t","h","e","r"," ","a","u","c","k","l","a","n","d">> /\ requested = 2) =>
        /\ ran = <<>>
        /\ Len(results) = 2
        /\ results[1].url = <<"h","t","t","p","s",":","/","/","w","w","w",".","t","i","m","e","a","n","d","d","a","t","e",".","c","o","m","/","w","e","a","t","h","e","r","/","n","e","w","-","z","e","a","l","a","n","d","/">> \o <<"a","u","c","k","l","a","n","d">>
        /\ results[2].url = <<"h","t","t","p","s",":","/","/","w","e","a","t","h","e","r",".","y","a","h","o","o",".","c","o","m","/","n","e","w","-","z","e","a","l","a","n","d","/">> \o <<"a","u","c","k","l","a","n","d">>
                                \o <<"/">> \o <<"a","u","c","k","l","a","n","d">> \o <<"-","2","3","4","8","3","2","7">>
        /\ Len(extracted) = 2 /\ extracted[1].attempted /\ extracted[2].attempted
        /\ Len(ret) <= 2

\* C18, amended: search has no category shortcut.  For a weather query such as
\* "weather auckland" with max_results = 2 it starts with the multi-engine
\* scrape like for any query, takes its candidates from that backend and from no
\* other, and the result list has at most max_results entries.  The
\* templates come from _search_html alone, when its fetch succeeded and no
\* pattern matched a link: it then returns exactly the 2 weather-site template
\* URLs built from the subject token (the first query word, in lower case, not
\* in the stoplist), and attempts no content extraction on them.
C18_WeatherTemplatesFromHtmlScrape ==
    LET city == IF query = <<"w","e","a","t","h","e","r"," ","a","u","c","k","l","a","n","d">>
                THEN <<"a","u","c","k","l","a","n","d">> ELSE <<"t","a","u","p","o">>
        first  == <<"h","t","t","p","s",":","/","/","w","w","w",".","t","i","m","e","a","n","d","d","a","t","e",".","c","o","m","/","w","e","a","t","h","e","r","/","n","e","w","-","z","e","a","l","a","n","d","/">> \o city
        second == <<"h","t","t","p","s",":","/","/","w","e","a","t","h","e","r",".","y","a","h","o","o",".","c","o","m","/","n","e","w","-","z","e","a","l","a","n","d","/">> \o city \o <<"/">> \o city \o <<"-","2","3","4","8","3","2","7">>
    IN  /\ (call = "search" /\ Contains(Lower(query), <<"w","e","a","t","h","e","r">>)) =>
               /\ \A i \in 1..Len(ran) : ran[i].backend = "alternative"
               /\ (pc \in {"extract", "done"} /\ ~escaped) => Len(ran) = 1
               /\ (pc = "done" /\ requested = 2) => Len(ret) <= 2
        /\ (/\ call = "_search_html" /\ pc = "done"
            /\ \/ Contains(Lower(query), <<"w","e","a","t","h","e","r">>)
               \/ Contains(Lower(query), <<"f","o","r","e","c","a","s","t">>)
            /\ ~fetched.raised /\ fetched.status = 200
            /\ fetched.m1 = <<>> /\ fetched.m2 = <<>> /\ fetched.m3 = <<>>) =>
               /\ Len(ret) = 2
               /\ ret[1].url = first
               /\ ret[2].url = second
               /\ extracted = <<>>

\* C18, reached: _search_html found no link for "weather auckland" and returned
\* the two weather candidates
C18_TemplatesReturned ==
    /\ call = "_search_html" /\ pc = "done"
    /\ query = <<"w","e","a","t","h","e","r"," ","a","u","c","k","l","a","n","d">>
    /\ ~fetched.raised /\ fetched.status = 200 /\ fetched.m1 = <<>>
    /\ Len(ret) = 2
    /\ ret[1].url = <<"h","t","t","p","s",":","/","/","w","w","w",".","t","i","m","e","a","n","d","d","a","t","e",".","c","o","m","/","w","e","a","t","h","e","r","/","n","e","w","-","z","e","a","l","a","n","d","/">> \o <<"a","u","c","k","l","a","n","d">>

\* C19 as the specification states it: when no backend finds any candidate (no
\* provider page yields a destination URL, the direct HTML scrape matches
\* nothing, the instant-answer response has no abstract and no related topics),
\* search returns the empty list.
C19_NoCandidateGivesEmptyList ==
    (call = "search" /\ pc = "done" /\ destinations = <<>>) => ret = <<>>

\* C19, amended: when no provider page yields a destination URL, search does not
\* consult the direct HTML scrape or the instant-answer API and returns a list
\* of exactly one result, the fallback candidate the multi-engine scrape
\* synthesizes (the generic web-search URL for the query); search returns the
\* empty list only when an exception reached its outer handler.
C19_FallbackCandidateReturned ==
    (call = "search" /\ pc = "done") =>
        /\ (destinations = <<>> /\ ~escaped) =>
               /\ Len(ran) = 1 /\ ran[1].backend = "alternative"
               /\ Len(ret) = 1
               /\ ret[1].url = <<"h","t","t","p","s",":","/","/","w","w","w",".","g","o","o","g","l","e",".","c","o","m","/","s","e","a","r","c","h","?","q","=">> \o Quote(query)
               /\ ret[1].title = <<"S","e","a","r","c","h"," ","r","e","s","u","l","t","s"," ","f","o","r"," ","'">> \o query \o <<"'">>
        /\ ret = <<>> => escaped

\* C19, reached: no destination was found and search returned the one fallback
\* candidate
C19_OnlyFallbackReturned ==
    /\ call = "search" /\ pc = "done" /\ ~escaped
    /\ destinations = <<>>
    /\ Len(fetches) = 4
    /\ Len(ret) = 1

\* C20 as the specification states it: what the multi-engine scrape returns
\* contains the synthesized fallback candidate exactly when zero destination URLs
\* were found across all providers; when at least one destination candidate was
\* collected, no fallback candidate is added.
C20_FallbackOnlyWhenNothingFound ==
    (call = "search" /\ Len(ran) >= 1) =>
        LET returned  == ran[1].returned
            fallback  == \E k \in 1..Len(returned) :
                             StartsWith(returned[k].url, <<"h","t","t","p","s",":","/","/","w","w","w",".","g","o","o","g","l","e",".","c","o","m","/","s","e","a","r","c","h","?","q","=">>)
            collected == Cardinality({d \in 1..Len(destinations) : destinations[d].kept})
        IN  /\ fallback <=> destinations = <<>>
            /\ collected >= 1 => ~fallback

\* C20, amended: what the multi-engine scrape returns contains the synthesized
\* fallback candidate, as its last entry, exactly when fewer than max_results
\* (clamped) destination candidates were collected: always when none was
\* collected, and also when some were but fewer than max_results; when
\* max_results candidates were collected, no fallback candidate is added.
C20_FallbackWhenFewerThanMax ==
    (call = "search" /\ Len(ran) >= 1) =>
        LET returned  == ran[1].returned
            limit     == Min(Max(1, requested), 10)
            IsFallback(r) == StartsWith(r.url, <<"h","t","t","p","s",":","/","/","w","w","w",".","g","o","o","g","l","e",".","c","o","m","/","s","e","a","r","c","h","?","q","=">>)
            fallback  == \E k \in 1..Len(returned) : IsFallback(returned[k])
            collected == Cardinality({d \in 1..Len(destinations) : destinations[d].kept})
        IN  /\ fallback <=> collected < limit
            /\ Len(returned) = collected + (IF fallback THEN 1 ELSE 0)
            /\ \A k \in 1..Len(returned) : IsFallback(returned[k]) => k = Len(returned)

\* C20, reached: a destination candidate was collected and the fallback candidate
\* was added after it
C20_FallbackAfterCandidate ==
    /\ call = "search" /\ Len(ran) >= 1
    /\ Len(ran[1].returned) = 2
    /\ \E d \in 1..Len(destinations) : destinations[d].kept
    /\ StartsWith(ran[1].returned[2].url, <<"h","t","t","p","s",":","/","/","w","w","w",".","g","o","o","g","l","e",".","c","o","m","/","s","e","a","r","c","h","?","q","=">>)

\* C21: when _search_instant_answer returns after a response that parsed, the
\* list holds exactly the abstract if the response has one; with no abstract it
\* holds at most max_results candidates, each with the text of a related topic
\* and, when that topic has a link, the link's text and URL; and it is not
\* empty when the response has a related topic with a text.
C21_AbstractAloneElseTopics ==
    (call = "_search_instant_answer" /\ pc = "done"
       /\ ~fetched.raised /\ ~RaisesForStatus(fetched) /\ ~fetched.bad_json) =>
        LET data == fetched.data
            usable == SelectSeq(data.RelatedTopics, LAMBDA t : t.is_dict /\ t.has_text)
        IN  /\ data.AbstractText # <<>> =>
                  /\ Len(ret) = 1
                  /\ ret[1].snippet = data.AbstractText
            /\ data.AbstractText = <<>> =>
                  /\ Len(ret) <= max_results
                  /\ \A i \in 1..Len(ret) :
                        \E k \in 1..Len(usable) :
                           /\ ret[i].snippet = usable[k].text
                           /\ usable[k].first_url # "absent" =>
                                 /\ ret[i].url = usable[k].link_url
                                 /\ ret[i].title = usable[k].link_text
            /\ usable # <<>> => ret # <<>>

\* C22: no candidate _search_html returns, its weather candidates included, has
\* a URL that the filter of _extract_result_urls would discard.
C22_HtmlScrapeUsesAlternativeDenylist ==
    (call = "_search_html" /\ pc = "done") =>
        \A i \in 1..Len(ret) :
           ~\E k \in 1..Len(SkipSubstrings) : Contains(ret[i].url, SkipSubstrings[k])

\* C23: when extract_content took the JSON strategy on a body json.loads
\* rejects, the content of its result is the content _extract_plain_text gives
\* for the same body: the first 2000 characters, cleaned.
C23_InvalidJsonAsPlainText ==
    (call = "extract_content" /\ pc = "done" /\ arm = "json"
       /\ fetched.json.t = "invalid") =>
        ret_data.content = CleanText(Take(fetched.text, TextContentCap))

\* C23, amended: when extract_content took the JSON strategy on a body
\* json.loads rejects, the content of its result is the first 1000 characters
\* of the body as received, the title is 'Invalid JSON' and the metadata carry
\* the error 'invalid_json'.
C23_InvalidJsonKeepsRawBody ==
    (call = "extract_content" /\ pc = "done" /\ arm = "json"
       /\ fetched.json.t = "invalid") =>
        /\ ret_data.content = Take(fetched.text, JsonContentCap)
        /\ ret_data.title = <<"I","n","v","a","l","i","d"," ","J","S","O","N">>
        /\ ret_data.metadata.error = <<"i","n","v","a","l","i","d","_","j","s","o","n">>
        /\ ret_data.source = fetched.final_url

\* C23, witness: an unparseable JSON body whose cleaned form differs from it was
\* extracted.
C23_UncleanBodyExtracted ==
    /\ call = "extract_content" /\ pc = "done" /\ arm = "json"
    /\ fetched.json.t = "invalid"
    /\ fetched.text # <<>>
    /\ CleanText(fetched.text) # fetched.text

\* C24: every candidate a backend returned has an empty snippet; and when search
\* returns, every candidate has the title and the url its backend gave it, a
\* without-content candidate is as its backend returned it, and every returned
\* result is one of these candidates.
C24_SnippetStartsEmpty ==
    /\ \A b \in 1..Len(ran) : \A j \in 1..Len(ran[b].returned) :
           ran[b].returned[j].snippet = <<>>
    /\ (call = "search" /\ pc = "done" /\ ~escaped) =>
          LET backend == ran[Len(ran)].returned
          IN  /\ Len(results) = Len(backend)
              /\ \A j \in 1..Len(results) :
                    /\ results[j].title = backend[j].title
                    /\ results[j].url = backend[j].url
              /\ \A k \in 1..Len(results_without_content) :
                    results[results_without_content[k]]
                        = backend[results_without_content[k]]
              /\ \A k \in 1..Len(ret) : \E j \in 1..Len(results) : ret[k] = results[j]

\* C24, amended: a candidate of _search_html leaves its backend with an empty
\* snippet and a candidate of _search_alternative with a snippet that is not
\* empty; and when search returns, every candidate has the title and the url its
\* backend gave it, a without-content candidate is as its backend returned it,
\* a with-content candidate has the snippet search cut from the content it
\* extracted for it, and every returned result is one of these candidates.
C24_OnlySnippetChanges ==
    /\ \A b \in 1..Len(ran) : \A j \in 1..Len(ran[b].returned) :
           /\ ran[b].backend = "html" => ran[b].returned[j].snippet = <<>>
           /\ ran[b].backend = "alternative" => ran[b].returned[j].snippet # <<>>
    /\ (call = "search" /\ pc = "done" /\ ~escaped) =>
          LET backend == ran[Len(ran)].returned
          IN  /\ Len(results) = Len(backend)
              /\ \A j \in 1..Len(results) :
                    /\ results[j].title = backend[j].title
                    /\ results[j].url = backend[j].url
              /\ \A k \in 1..Len(results_without_content) :
                    results[results_without_content[k]]
                        = backend[results_without_content[k]]
              /\ \A k \in 1..Len(results_with_content) :
                    results[results_with_content[k]].snippet
                        = Snippet(extracted[results_with_content[k]].content)
              /\ \A k \in 1..Len(ret) : \E j \in 1..Len(results) : ret[k] = results[j]

\* C24, witness: search returned a with-content result whose snippet is no
\* longer the one its backend gave it, and a without-content result that still
\* has its backend's snippet, which is not empty.
C24_SnippetReplacedAndSnippetKept ==
    /\ call = "search" /\ pc = "done" /\ ~escaped
    /\ \E k \in 1..Len(ret) : \E j \in 1..Len(results_with_content) :
          /\ ret[k] = results[results_with_content[j]]
          /\ ret[k].snippet # ran[Len(ran)].returned[results_with_content[j]].snippet
    /\ \E k \in 1..Len(ret) : \E j \in 1..Len(results_without_content) :
          /\ ret[k] = ran[Len(ran)].returned[results_without_content[j]]
          /\ ret[k].snippet # <<>>

\* C25: when extract_content has run the BeautifulSoup extraction on a page with
\* a primary-content region (the first element matched by the first content
\* selector, in priority order, that matches anything; the body when none
\* does), the content holds the cleaned text of every text-bearing element of
\* the region that is longer than 10 characters and lies in no noise element,
\* and holds the text of no noise element of the region.
C25_RegionTextWithoutNoise ==
    (call = "extract_content" /\ pc = "done" /\ arm = "html" /\ bs4_available) =>
        LET soup == fetched.soup
            Hit(i) == Select(soup, ContentSelectors[i], FALSE) # <<>>
            region ==
                IF \E i \in 1..Len(ContentSelectors) : Hit(i)
                THEN Select(soup,
                            ContentSelectors[CHOOSE i \in 1..Len(ContentSelectors) :
                                                Hit(i) /\ \A j \in 1..(i - 1) : ~Hit(j)],
                            FALSE)[1]
                ELSE FindTag(soup, "body")
            Noise(n) == \E i \in 1..Len(UnwantedSelectors) :
                           MatchesSimple(n, UnwantedSelectors[i])
            inside == Descendants(Soup(<<region>>))
            kept == Descendants(Decompose(Soup(<<region>>), UnwantedSelectors))
        IN  region # NoElement =>
              /\ \A k \in 1..Len(kept) :
                    (/\ kept[k].tag \in TextTags
                     /\ Len(GetText(kept[k], <<>>)) > MinElementTextLen)
                    => Contains(ret_data.content, CleanText(GetText(kept[k], <<>>)))
              /\ \A k \in 1..Len(inside) :
                    Noise(inside[k]) =>
                        \A d \in 1..Len(Descendants(inside[k])) :
                           LET node == Descendants(inside[k])[d]
                           IN  (node.tag = "#text" /\ Strip(node.text) # <<>>)
                               => ~Contains(ret_data.content, CleanText(node.text))

\* C25, witness: the page extracted has an element of a later content selector
\* before the region in the document, and the region holds noise elements and
\* three text-bearing elements longer than 10 characters, one of them longer
\* than 199.
C25_RegionAmidChromeExtracted ==
    /\ call = "extract_content" /\ pc = "done" /\ arm = "html" /\ bs4_available
    /\ LET soup == fetched.soup
           all == Descendants(soup)
           First(sel) == Select(soup, sel, FALSE)[1]
           Pos(n) == CHOOSE k \in 1..Len(all) : all[k] = n
           Noise(n) == \E i \in 1..Len(UnwantedSelectors) :
                          MatchesSimple(n, UnwantedSelectors[i])
       IN  \E i \in 1..Len(ContentSelectors) :
              /\ Select(soup, ContentSelectors[i], FALSE) # <<>>
              /\ \E j \in (i + 1)..Len(ContentSelectors) :
                    /\ Select(soup, ContentSelectors[j], FALSE) # <<>>
                    /\ Pos(First(ContentSelectors[j])) < Pos(First(ContentSelectors[i]))
              /\ \E n \in 1..Len(Descendants(First(ContentSelectors[i]))) :
                    Noise(Descendants(First(ContentSelectors[i]))[n])
              /\ Len(TextParts(Decompose(Soup(<<First(ContentSelectors[i])>>),
                                         UnwantedSelectors))) >= 3
              /\ \E n \in 1..Len(Descendants(First(ContentSelectors[i]))) :
                    Len(GetText(Descendants(First(ContentSelectors[i]))[n], <<>>)) > 199
              /\ Len(ret_data.content) > 199

\* C26: the title extract_content gives an HTML page is the first of these that
\* is not empty: the text of its <title>, the content of its Open Graph title
\* meta, the text of its first <h1> that has text, the content of its Twitter
\* title meta, 'Page from ' and the host of its URL; and it is not empty.
C26_TitleFromFirstSource ==
    (call = "extract_content" /\ pc = "done" /\ arm = "html") =>
        LET soup == fetched.soup
            HasText(n) == n.tag = "h1" /\ GetText(n, <<>>) # <<>>
            sources ==
                <<GetText(FindTag(soup, "title"), <<>>),
                  FindMetaProperty(soup, "og:title").content,
                  GetText(FirstOf(SelectSeq(Descendants(soup), HasText)), <<>>),
                  FindMetaName(soup, "twitter:title").content,
                  <<"P","a","g","e"," ","f","r","o","m"," ">> \o Netloc(fetched.final_url)>>
        IN  /\ \E i \in 1..Len(sources) :
                  /\ ret_data.title = sources[i]
                  /\ \A j \in 1..(i - 1) : sources[j] = <<>>
            /\ ret_data.title # <<>>

\* C26, amended: with BeautifulSoup, the title extract_content gives an HTML page
\* is the first of these that is not empty: the text of its <title>, the
\* content of its Open Graph title meta, the text of its first <h1>, the
\* content of its Twitter title meta, 'Page from ' and the host of its URL; and
\* it is not empty.  Without BeautifulSoup it is the text of the <title>, empty
\* or not, and 'Web Page' for a page that has no <title>.
C26_TitleBySoupOrTitleTag ==
    (call = "extract_content" /\ pc = "done" /\ arm = "html") =>
        LET soup == fetched.soup
            sources ==
                <<GetText(FindTag(soup, "title"), <<>>),
                  FindMetaProperty(soup, "og:title").content,
                  GetText(FindTag(soup, "h1"), <<>>),
                  FindMetaName(soup, "twitter:title").content,
                  <<"P","a","g","e"," ","f","r","o","m"," ">> \o Netloc(fetched.final_url)>>
        IN  IF bs4_available
            THEN /\ \E i \in 1..Len(sources) :
                       /\ ret_data.title = sources[i]
                       /\ \A j \in 1..(i - 1) : sources[j] = <<>>
                 /\ ret_data.title # <<>>
            ELSE ret_data.title =
                     IF FindTag(soup, "title") # NoElement THEN sources[1]
                     ELSE <<"W","e","b"," ","P","a","g","e">>

\* C26, witness: with BeautifulSoup, a page with no <title>, no Open Graph
\* title and a first <h1> without text got the content of its Twitter title
\* meta as title, although a later <h1> has text.
C26_TwitterTitleUsed ==
    /\ call = "extract_content" /\ pc = "done" /\ arm = "html" /\ bs4_available
    /\ FindTag(fetched.soup, "title") = NoElement
    /\ FindMetaProperty(fetched.soup, "og:title") = NoElement
    /\ FindTag(fetched.soup, "h1") # NoElement
    /\ GetText(FindTag(fetched.soup, "h1"), <<>>) = <<>>
    /\ \E k \in 1..Len(Descendants(fetched.soup)) :
          /\ Descendants(fetched.soup)[k].tag = "h1"
          /\ GetText(Descendants(fetched.soup)[k], <<>>) # <<>>
    /\ ret_data.title # <<>>
    /\ ret_data.title = FindMetaName(fetched.soup, "twitter:title").content

\* C27: in search, the provider pages requested so far are those of startpage,
\* bing and yahoo, in this order and none skipped; every request of
\* _search_alternative, for a provider page or for a destination, was made while
\* fewer than max_results candidates had been kept; and when
\* _search_alternative has returned, max_results candidates had been kept or all
\* three provider pages had been requested.
C27_ProvidersInOrderUntilEnough ==
    (call = "search" /\ ~QuoteRaises(query)) =>
        LET engines == SearchEngines(query)
            IsProvider(u) == \E i \in 1..Len(engines) : u = engines[i].url
            providers == SelectSeq(fetches, IsProvider)
            \* how many destinations were requested before request p
            DestinationsBefore(p) ==
                Cardinality({q \in 1..(p - 1) : ~IsProvider(fetches[q])})
            KeptBefore(p) ==
                Cardinality({d \in 1..DestinationsBefore(p) : destinations[d].kept})
        IN  /\ Len(providers) <= Len(engines)
            /\ \A k \in 1..Len(providers) : providers[k] = engines[k].url
            /\ \A p \in 1..(Len(providers) + Len(destinations)) :
                   KeptBefore(p) < max_results
            /\ ran # <<>> =>
                   \/ Len(providers) = Len(engines)
                   \/ Cardinality({d \in 1..Len(destinations) : destinations[d].kept})
                          >= max_results

\* C27, witness: the page of startpage gave no destination, bing was asked
\* next, its destinations filled the max_results candidates, and
\* _search_alternative returned without asking yahoo.
C27_StoppedBeforeYahoo ==
    /\ call = "search" /\ ran # <<>> /\ max_results >= 2
    /\ Len(fetches) >= 3
    /\ fetches[1] = SearchEngines(query)[1].url
    /\ fetches[2] = SearchEngines(query)[2].url
    /\ \A p \in 1..Len(fetches) : fetches[p] # SearchEngines(query)[3].url
    /\ Cardinality({d \in 1..Len(destinations) : destinations[d].kept}) = max_results

C29_ReturnedIsPermutation ==
    (/\ call = "search" /\ pc = "done" /\ ~escaped
     /\ Len(ran[Len(ran)].returned) <= max_results) =>
        LET backend == ran[Len(ran)].returned
            Key(r) == <<r.title, r.url>>
            Times(list, x) == Cardinality({k \in 1..Len(list) : list[k] = x})
            KeyTimes(list, x) == Cardinality({k \in 1..Len(list) : Key(list[k]) = x})
        IN  /\ Len(ret) = Len(backend)
            /\ \A j \in 1..Len(results) : Times(ret, results[j]) = Times(results, results[j])
            /\ \A k \in 1..Len(ret) : Times(ret, ret[k]) = Times(results, ret[k])
            /\ \A j \in 1..Len(backend) :
                   KeyTimes(ret, Key(backend[j])) = KeyTimes(backend, Key(backend[j]))

\* C29, witness: search returned all three candidates of its backend, in
\* another order than the backend's.
C29_AllReturnedReordered ==
    /\ call = "search" /\ pc = "done" /\ ~escaped
    /\ Len(ran[Len(ran)].returned) = 3 /\ Len(ret) = 3
    /\ \E k \in 1..3 : ret[k].url # ran[Len(ran)].returned[k].url

\* C30: a result of fetch_website_content that is not None is the text
\* extracted from the page when that text has at most max_length characters,
\* and otherwise its first max_length characters followed by the truncation
\* marker; it is never longer than max_length plus the length of the marker.
C30_WholeTextOrMarkedCut ==
    (call = "fetch_website_content" /\ pc = "done" /\ ~ret_text.none) =>
        \E text_content \in {ExtractTextFromHtml(fetched.text)} :
           /\ max_length >= 0
           /\ Len(text_content) <= max_length => ret_text.text = text_content
           /\ Len(text_content) > max_length =>
                  ret_text.text = SubSeq(text_content, 1, max_length) \o TruncationMarker
           /\ Len(ret_text.text) <= max_length + Len(TruncationMarker)

\* C30, witness: a page text longer than a max_length above 0 was returned cut,
\* with the marker.
C30_CutWithMarkerReturned ==
    /\ call = "fetch_website_content" /\ pc = "done" /\ ~ret_text.none
    /\ max_length > 0
    /\ Len(ExtractTextFromHtml(fetched.text)) > max_length
    /\ Len(ret_text.text) = max_length + Len(TruncationMarker)

====
